---------------------------- MODULE Spec2Model ----------------------------
(***************************************************************************)
(* A model of the HR recruitment funnel pipeline:                          *)
(*   src/python/feature_engineering.py  FeatureEngineer, the target label  *)
(*   src/python/ml_model.py             RecruitmentMLModel.train, main     *)
(*                                                                         *)
(* A DataFrame is [cols |-> the set of its column names, rows |-> the      *)
(* sequence of its rows], a row being a function from the column names to  *)
(* cell values.  A missing numeric cell is NaN; a missing categorical cell *)
(* is the string "NaN", which astype(str) turns into "nan".  Ratios are    *)
(* kept as reduced fractions [num, den], the missing ratio being NaNFrac.  *)
(***************************************************************************)
EXTENDS Integers, Sequences, FiniteSets, TLC

VARIABLES
    label_encoders,   \* FeatureEngineer.label_encoders: column -> classes_
    fit_medians,      \* history: the medians of the first prepared frame
    last_call,        \* history: the most recent call and what it returned
    fe_artifact,      \* the file FeatureEngineer.save writes and load reads
    model_type,       \* RecruitmentMLModel.model_type
    model,            \* RecruitmentMLModel.model
    feature_importance, \* RecruitmentMLModel.feature_importance
    X_train,          \* the training features handed to train
    y_train,          \* the training labels handed to train
    np_random,        \* the state of numpy's global random generator
    train_call,       \* history: the most recent train call
    first_bal,        \* history: the first resampled set, and the runs so far
    artifact,         \* the file RecruitmentMLModel.save writes and load reads
    serve_call,       \* history: the most recent evaluate/predict/save/load call
    main,             \* ml_model.main: its position and its local variables
    ab_call,          \* history: the most recent ABTestingFramework call
    gen,              \* transform_to_funnel.py: its loops and funnel_data
    api_call          \* src/api/main.py: the database, a request, its response

fe_vars == <<label_encoders, fit_medians, last_call, fe_artifact>>

ml_vars == <<model_type, model, feature_importance, X_train, y_train,
             np_random, train_call, first_bal, artifact, serve_call>>

vars == <<fe_vars, ml_vars, main, ab_call, gen, api_call>>

---------------------------------------------------------------------------
(* Bounds of the model.                                                    *)

MaxRows == 2

---------------------------------------------------------------------------
(* Cell values.                                                            *)

NaN == -1

NaNStr == "NaN"

NaNFrac == [num |-> 0, den |-> 0]

ValueError == [cols |-> {"ValueError"}, rows |-> << >>]

KeyError == [cols |-> {"KeyError"}, rows |-> << >>]

RECURSIVE GCD(_, _)
GCD(a, b) == IF b = 0 THEN a ELSE GCD(b, a % b)

\* a / b in float arithmetic, for small non-negative a and positive b: two
\* quotients are the same float exactly when the reduced fractions agree.
Frac(a, b) ==
    IF b = 0 THEN NaNFrac
    ELSE LET g == GCD(a, b) IN [num |-> a \div g, den |-> b \div g]

\* The strings of the model in Python's str order (code point order, so
\* every upper-case letter sorts before "nan").
StrOrder == <<"LinkedIn", "Naukri", "Sales", "nan">>

StrRank(s) == CHOOSE k \in DOMAIN StrOrder : StrOrder[k] = s

\* Series.astype(str): a string is itself, a missing value becomes "nan".
astype_str(v) == IF v = NaNStr THEN "nan" ELSE v

---------------------------------------------------------------------------
(* DataFrame helpers.                                                      *)

Idx(df) == DOMAIN df.rows

HasCol(df, col) == col \in df.cols

\* df[name] = the values F(i), one per row (an existing column is replaced).
WithCol(df, name, F(_)) ==
    [cols |-> df.cols \cup {name},
     rows |-> [i \in Idx(df) |->
                 [c \in df.cols \cup {name} |->
                    IF c = name THEN F(i) ELSE df.rows[i][c]]]]

Column(df, col) == [i \in Idx(df) |-> df.rows[i][col]]

\* work = df, without a copy: what is assigned to work is assigned to the
\* caller's df, which ends as the table the function built.
DataFrameAlias(df, work) == work

\* work = df.copy(): the caller's df after the function has assigned
\* columns to work.
DataFrameCopy(df, work) == df

RECURSIVE SumOver(_, _)
SumOver(S, f) ==
    IF S = {} THEN 0
    ELSE LET x == CHOOSE y \in S : TRUE IN f[x] + SumOver(S \ {x}, f)

---------------------------------------------------------------------------
(* sklearn.preprocessing.LabelEncoder as create_features uses it.          *)

RECURSIVE SortedSeq(_)
SortedSeq(S) ==
    IF S = {} THEN << >>
    ELSE LET m == CHOOSE x \in S : \A y \in S : StrRank(x) <= StrRank(y)
         IN  <<m>> \o SortedSeq(S \ {m})

\* LabelEncoder.fit: classes_ is the sorted sequence of the distinct values.
LabelEncoderFit(values) == SortedSeq({values[i] : i \in DOMAIN values})

Classes(enc) == {enc[k] : k \in DOMAIN enc}

\* LabelEncoder.fit_transform: classes_ and, as the code of each value, its
\* inverse index in the sorted distinct values (the number of distinct
\* values below it).
LabelEncoderFitTransform(values) ==
    LET D == {values[i] : i \in DOMAIN values}
    IN  [enc   |-> LabelEncoderFit(values),
         codes |-> [i \in DOMAIN values |->
                      Cardinality({d \in D : StrRank(d) < StrRank(values[i])})]]

\* The 0-based position of value v in classes_.
CodeOf(enc, v) == (CHOOSE k \in DOMAIN enc : enc[k] = v) - 1

Unseen(enc, values) == \E i \in DOMAIN values : values[i] \notin Classes(enc)

\* A mutant of LabelEncoderTransform: an unseen label is mapped to -1.
TransformSilent(enc, values) ==
    [enc   |-> enc,
     err   |-> FALSE,
     codes |-> [i \in DOMAIN values |->
                  IF values[i] \in Classes(enc) THEN CodeOf(enc, values[i])
                  ELSE -1]]

\* A mutant of LabelEncoderTransform: the fitted encoder is fitted again.
TransformRefit(enc, values) ==
    [enc   |-> LabelEncoderFit(values),
     err   |-> FALSE,
     codes |-> LabelEncoderFitTransform(values).codes]

\* A mutant of LabelEncoderTransform: codes count from 1.
TransformOneBased(enc, values) ==
    [enc   |-> enc,
     err   |-> Unseen(enc, values),
     codes |-> [i \in DOMAIN values |->
                  IF values[i] \in Classes(enc) THEN CodeOf(enc, values[i]) + 1
                  ELSE 0]]

\* LabelEncoder.transform on a fitted encoder: the position of each value
\* in classes_; a previously unseen label raises ValueError.  The encoder
\* itself is not touched.
LabelEncoderTransform(enc, values) ==
    [enc   |-> enc,
     err   |-> Unseen(enc, values),
     codes |-> [i \in DOMAIN values |->
                  IF values[i] \in Classes(enc) THEN CodeOf(enc, values[i])
                  ELSE 0]]

categorical_cols ==
    <<"Source", "Job_Role", "Department", "Gender", "EducationField">>

StrColumn(df, col) == [i \in Idx(df) |-> astype_str(df.rows[i][col])]

SetEncoder(encs, col, enc) ==
    [c \in DOMAIN encs \cup {col} |-> IF c = col THEN enc ELSE encs[c]]

\* The loop over categorical_cols from position k on.  A column without an
\* encoder gets one fitted on this data; a column with one is transformed,
\* and the ValueError of an unseen label leaves the loop where it stands.
RECURSIVE EncodeFrom(_, _, _)
EncodeFrom(encs, df, k) ==
    IF k > Len(categorical_cols) THEN [encs |-> encs, df |-> df, err |-> FALSE]
    ELSE LET col == categorical_cols[k]
             vals == StrColumn(df, col)
         IN  IF ~HasCol(df, col) THEN EncodeFrom(encs, df, k + 1)
             ELSE IF col \notin DOMAIN encs
             THEN LET ft == LabelEncoderFitTransform(vals)
                  IN  EncodeFrom(SetEncoder(encs, col, ft.enc),
                          WithCol(df, col \o "_encoded", LAMBDA i : ft.codes[i]),
                          k + 1)
             ELSE LET t == LabelEncoderTransform(encs[col], vals)
                      new == SetEncoder(encs, col, t.enc)
                  IN  IF t.err THEN [encs |-> new, df |-> df, err |-> TRUE]
                      ELSE EncodeFrom(new,
                              WithCol(df, col \o "_encoded", LAMBDA i : t.codes[i]),
                              k + 1)

---------------------------------------------------------------------------
(* FeatureEngineer.create_features.                                        *)

Present(df, col) == {i \in Idx(df) : df.rows[i][col] # NaN}

\* (Age - mean) / std with the sample standard deviation: the cell is kept
\* as its numerator n*Age - sum, the variance numerator n*sumsq - sum^2 and
\* n.  It is NaN for a missing Age, for fewer than two ages (std is NaN)
\* and for equal ages (0 / 0).
NaNNorm == [num |-> NaNFrac, var |-> 0, n |-> 0]

AgeNormalized(df, i) ==
    LET P == Present(df, "Age")
        n == Cardinality(P)
        sum == SumOver(P, [j \in P |-> df.rows[j]["Age"]])
        sumsq == SumOver(P, [j \in P |-> df.rows[j]["Age"] * df.rows[j]["Age"]])
        var == n * sumsq - sum * sum
        age == df.rows[i]["Age"]
    IN  IF age = NaN \/ n < 2 \/ var = 0 THEN NaNNorm
        ELSE [num |-> [num |-> n * age - sum, den |-> 1], var |-> var, n |-> n]

\* np.log1p(d), kept as its argument: [lo, hi] stands for the mean of
\* log1p(lo) and log1p(hi), a cell of the data frame having lo = hi.
NaNLog == [lo |-> NaN, hi |-> NaN]

Log1p(d) == IF d = NaN THEN NaNLog ELSE [lo |-> d, hi |-> d]

MaxStageCount == 8

EarlyStageMax == 3

LateStageMin == 6

SlowProcessDays == 50

\* The share of 'Hired' among all rows, the same for every source.
source_success_ungrouped(df) ==
    [s \in {df.rows[i]["Source"] : i \in Idx(df)} \ {NaNStr} |->
        Frac(Cardinality({i \in Idx(df) : df.rows[i]["Status"] = "Hired"}),
             Cardinality(Idx(df)))]

\* groupby('Source')['Status']: the share of 'Hired' among the rows of one
\* source; groupby drops the rows whose Source is missing.
source_success(df) ==
    [s \in {df.rows[i]["Source"] : i \in Idx(df)} \ {NaNStr} |->
        LET G == {i \in Idx(df) : df.rows[i]["Source"] = s}
        IN  Frac(Cardinality({i \in G : df.rows[i]["Status"] = "Hired"}),
                 Cardinality(G))]

SourceSuccessRate(df, i) ==
    LET s == df.rows[i]["Source"]
    IN  IF s = NaNStr THEN NaNFrac ELSE source_success(df)[s]

NumericFeatures(df0) ==
    LET df1 == IF HasCol(df0, "Age")
               THEN WithCol(
                      WithCol(df0, "Age_squared",
                              LAMBDA i : IF df0.rows[i]["Age"] = NaN THEN NaN
                                         ELSE df0.rows[i]["Age"] * df0.rows[i]["Age"]),
                      "Age_normalized", LAMBDA i : AgeNormalized(df0, i))
               ELSE df0
        df2 == IF HasCol(df1, "Education")
               THEN WithCol(df1, "Education_level",
                            LAMBDA i : df1.rows[i]["Education"])
               ELSE df1
    IN  df2

StageFeatures(df0) ==
    IF HasCol(df0, "Stage_Sequence")
    THEN LET seq(i) == df0.rows[i]["Stage_Sequence"]
             df1 == WithCol(df0, "Stage_progress",
                            LAMBDA i : IF seq(i) = NaN THEN NaNFrac
                                       ELSE Frac(seq(i), MaxStageCount))
             df2 == WithCol(df1, "Is_early_stage",
                            LAMBDA i : IF seq(i) # NaN /\ seq(i) <= EarlyStageMax
                                       THEN 1 ELSE 0)
         IN  WithCol(df2, "Is_late_stage",
                     LAMBDA i : IF seq(i) # NaN /\ seq(i) >= LateStageMin
                                THEN 1 ELSE 0)
    ELSE df0

TimeFeatures(df0) ==
    IF HasCol(df0, "Days_Since_Application")
    THEN LET d(i) == df0.rows[i]["Days_Since_Application"]
             df1 == WithCol(df0, "Days_log", LAMBDA i : Log1p(d(i)))
         IN  WithCol(df1, "Is_slow_process",
                     LAMBDA i : IF d(i) # NaN /\ d(i) > SlowProcessDays
                                THEN 1 ELSE 0)
    ELSE df0

SourceFeatures(df0) ==
    IF HasCol(df0, "Source") /\ HasCol(df0, "Status")
    THEN WithCol(df0, "Source_success_rate", LAMBDA i : SourceSuccessRate(df0, i))
    ELSE df0

InteractionFeatures(df0) ==
    IF HasCol(df0, "Age") /\ HasCol(df0, "Education")
    THEN WithCol(df0, "Age_Education_interaction",
                 LAMBDA i : IF df0.rows[i]["Age"] = NaN
                               \/ df0.rows[i]["Education"] = NaN
                            THEN NaN
                            ELSE df0.rows[i]["Age"] * df0.rows[i]["Education"])
    ELSE df0

\* The keyword parameters of FeatureEngineer.__init__(self) and of
\* create_features(self, df), each with its default: there are none.
feature_options == {}

\* create_features(df) on an object whose encoders are encs: the encoders
\* after the call and what the call returns (ValueError when it raised).
create_features(encs, df) ==
    LET e == EncodeFrom(encs, df, 1)
    IN  [encs |-> e.encs,
         out  |-> IF e.err THEN ValueError
                  ELSE InteractionFeatures(SourceFeatures(TimeFeatures(
                           StageFeatures(NumericFeatures(e.df)))))]

---------------------------------------------------------------------------
(* create_target_variable.                                                 *)

DropOffStatus == "Rejected"

\* A mutant of create_target_variable: every status but 'Passed' is a drop-off.
create_target_variable_not_passed(df) ==
    IF ~HasCol(df, "Status") THEN KeyError
    ELSE WithCol(df, "will_drop_off",
                 LAMBDA i : IF df.rows[i]["Status"] # "Passed" THEN 1 ELSE 0)

create_target_variable(df) ==
    IF ~HasCol(df, "Status") THEN KeyError
    ELSE WithCol(df, "will_drop_off",
                 LAMBDA i : IF df.rows[i]["Status"] = DropOffStatus THEN 1 ELSE 0)

---------------------------------------------------------------------------
(* FeatureEngineer.prepare_for_modeling.                                   *)

\* The columns in the order a data frame holds them: the columns of the
\* CSV, then the label, then the features in the order create_features
\* adds them.
ColumnOrder ==
    <<"Applicant_ID", "Source", "Job_Role", "Department", "Application_Date",
      "Stage", "Stage_Sequence", "Stage_Date", "Status",
      "Days_Since_Application", "Age", "Gender", "Education", "EducationField",
      "will_drop_off",
      "Source_encoded", "Job_Role_encoded", "Department_encoded",
      "Gender_encoded", "EducationField_encoded",
      "Age_squared", "Age_normalized", "Education_level",
      "Stage_progress", "Is_early_stage", "Is_late_stage",
      "Days_log", "Is_slow_process", "Source_success_rate",
      "Age_Education_interaction">>

\* What a column holds: strings (dtype object), integers, fractions, or one
\* of the two symbolic float columns.
ColKind(col) ==
    IF col \in {"Applicant_ID", "Source", "Job_Role", "Department",
                "Application_Date", "Stage", "Stage_Date", "Status",
                "Gender", "EducationField"} THEN "object"
    ELSE IF col \in {"Stage_progress", "Source_success_rate"} THEN "frac"
    ELSE IF col = "Age_normalized" THEN "norm"
    ELSE IF col = "Days_log" THEN "log"
    ELSE "int"

exclude_cols(target_col) ==
    {target_col, "Applicant_ID", "Application_Date", "Stage_Date", "Stage",
     "Status", "Source", "Job_Role", "Department", "Gender", "EducationField"}

\* feature_cols=None: every numeric column that is not excluded.
feature_cols(df, target_col) ==
    SelectSeq(ColumnOrder,
              LAMBDA c : /\ c \in df.cols
                         /\ c \notin exclude_cols(target_col)
                         /\ ColKind(c) # "object")

Abs(x) == IF x < 0 THEN 0 - x ELSE x

\* (a + b) / 2 of two fractions.
FracMid(a, b) ==
    LET n == a.num * b.den + b.num * a.den
        d == 2 * a.den * b.den
        g == GCD(Abs(n), d)
    IN  [num |-> n \div g, den |-> d \div g]

FracLess(a, b) == a.num * b.den < b.num * a.den

\* A cell of X: an integer cell becomes a float.
AsFloat(kind, v) ==
    IF kind = "int"
    THEN (IF v = NaN THEN NaNFrac ELSE [num |-> v, den |-> 1])
    ELSE v

IsNaNCell(kind, v) ==
    IF kind = "norm" THEN v = NaNNorm
    ELSE IF kind = "log" THEN v = NaNLog
    ELSE v = NaNFrac

CellLess(kind, a, b) ==
    IF kind = "norm" THEN FracLess(a.num, b.num)
    ELSE IF kind = "log" THEN a.lo < b.lo
    ELSE FracLess(a, b)

CellMid(kind, a, b) ==
    IF kind = "norm" THEN [num |-> FracMid(a.num, b.num), var |-> a.var, n |-> a.n]
    ELSE IF kind = "log" THEN [lo |-> a.lo, hi |-> b.hi]
    ELSE FracMid(a, b)

\* Series.median(): the middle of the values that are present (the mean of
\* the two middle ones for an even count), NaN when none is present.
Median(kind, values) ==
    LET P == {i \in DOMAIN values : ~IsNaNCell(kind, values[i])}
        n == Cardinality(P)
        Kth(k) == values[CHOOSE i \in P :
                     /\ Cardinality({j \in P : CellLess(kind, values[j], values[i])}) < k
                     /\ k <= Cardinality({j \in P : ~CellLess(kind, values[i], values[j])})]
    IN  IF n = 0 THEN values[CHOOSE i \in DOMAIN values : TRUE]
        ELSE IF n % 2 = 1 THEN Kth((n + 1) \div 2)
        ELSE CellMid(kind, Kth(n \div 2), Kth(n \div 2 + 1))

FloatColumn(df, col) ==
    [i \in Idx(df) |-> AsFloat(ColKind(col), df.rows[i][col])]

\* The value X.fillna(X.median()) puts into the missing cells of col: the
\* median of that column of the frame being prepared.
FillValue(df, col) == Median(ColKind(col), FloatColumn(df, col))

Filled(df, col, i) ==
    LET v == FloatColumn(df, col)[i]
    IN  IF IsNaNCell(ColKind(col), v) THEN FillValue(df, col) ELSE v

NoTarget == << >>

\* prepare_for_modeling(df, target_col): X, y and the feature columns.
prepare_for_modeling(df, target_col) ==
    LET fc == feature_cols(df, target_col)
        cs == {fc[k] : k \in DOMAIN fc}
    IN  [X |-> [cols |-> cs,
                rows |-> [i \in Idx(df) |-> [c \in cs |-> Filled(df, c, i)]]],
         y |-> IF target_col \in df.cols THEN Column(df, target_col)
               ELSE NoTarget,
         feature_cols |-> fc]

---------------------------------------------------------------------------
(* imblearn.over_sampling.SMOTE(random_state=42).fit_resample as train     *)
(* calls it.  X is a sequence of rows (feature column -> integer), y the   *)
(* sequence of their labels.  A resampled row holds its values in units of *)
(* 1 / RngModulus, so that an interpolated value is exact.                 *)

K_NEIGHBORS == 5

RandomStateSeed == 42

RngModulus == 8

\* The generator behind a RandomState: a full-period congruential
\* generator over 0 .. RngModulus - 1 stands for numpy's Mersenne Twister.
RngNext(s) == (5 * s + 3) % RngModulus

RECURSIVE RngAt(_, _)
RngAt(seed, j) == IF j = 0 THEN seed % RngModulus ELSE RngNext(RngAt(seed, j - 1))

FeatureCols == {"Stage_Sequence", "Days_Since_Application"}

Count(y, c) == Cardinality({i \in DOMAIN y : y[i] = c})

ClassesOf(y) == {y[i] : i \in DOMAIN y}

\* The majority class: the first of the sorted classes with the largest count.
MajorityClass(y) ==
    CHOOSE c \in ClassesOf(y) :
        \A d \in ClassesOf(y) :
            Count(y, c) > Count(y, d) \/ (Count(y, c) = Count(y, d) /\ c <= d)

\* A mutant of NSynthetic: one sample short of the majority count.
NSyntheticShort(y, c) ==
    IF Count(y, MajorityClass(y)) - Count(y, c) > 0
    THEN Count(y, MajorityClass(y)) - Count(y, c) - 1
    ELSE 0

\* sampling_strategy='auto': a class gets as many synthetic samples as it
\* is short of the majority class.
NSynthetic(y, c) == Count(y, MajorityClass(y)) - Count(y, c)

\* A mutant of NeighborsNeeded: the sample itself is not counted.
NeighborsNeededNoSelf == K_NEIGHBORS

\* NearestNeighbors(n_neighbors = k_neighbors + 1): kneighbors raises
\* ValueError when the class holds fewer samples than that.
NeighborsNeeded == K_NEIGHBORS + 1

\* A mutant of SmoteSeed: random_state=None draws from the global generator.
SmoteSeedGlobal == np_random

\* The seed of the RandomState a fit_resample call draws from.
SmoteSeed == RandomStateSeed

\* The rows of class c, in the order of X.
ClassRows(X, y, c) ==
    LET idx == SelectSeq([i \in DOMAIN y |-> i], LAMBDA i : y[i] = c)
    IN  [k \in DOMAIN idx |-> X[idx[k]]]

Dist2(a, b) == SumOver(FeatureCols, [f \in FeatureCols |-> (a[f] - b[f]) * (a[f] - b[f])])

\* The col-th nearest other row of row r within Xc (ties by position).
Neighbor(Xc, r, col) ==
    LET Closer(k, j) == \/ Dist2(Xc[r], Xc[k]) < Dist2(Xc[r], Xc[j])
                        \/ Dist2(Xc[r], Xc[k]) = Dist2(Xc[r], Xc[j]) /\ k < j
        Others == DOMAIN Xc \ {r}
    IN  CHOOSE j \in Others :
            Cardinality({k \in Others : Closer(k, j)}) = col - 1

Scaled(row) == [f \in FeatureCols |-> RngModulus * row[f]]

\* _make_samples: n draws of randint(0, n_class * k) pick a row and one of
\* its neighbours, n draws of uniform() the step between them.
SyntheticRow(Xc, seed, n, j) ==
    LET pick == RngAt(seed, j) % (Len(Xc) * K_NEIGHBORS)
        r    == (pick \div K_NEIGHBORS) + 1
        col  == (pick % K_NEIGHBORS) + 1
        step == RngAt(seed, n + j)
        nn   == Neighbor(Xc, r, col)
    IN  [f \in FeatureCols |->
           RngModulus * Xc[r][f] + step * (Xc[nn][f] - Xc[r][f])]

\* fit_resample(X, y): ValueError for fewer than two classes and for a
\* class to oversample that is smaller than NeighborsNeeded; otherwise X
\* and y followed by the synthetic rows of each minority class.
RECURSIVE SmoteFrom(_, _, _, _)
SmoteFrom(X, y, seed, todo) ==
    IF todo = {} THEN [err |-> FALSE, X |-> << >>, y |-> << >>]
    ELSE LET c    == CHOOSE d \in todo : \A e \in todo : d <= e
             n    == NSynthetic(y, c)
             Xc   == ClassRows(X, y, c)
             rest == SmoteFrom(X, y, seed, todo \ {c})
         IN  IF n <= 0 THEN rest
             ELSE IF Len(Xc) < NeighborsNeeded \/ rest.err
             THEN [err |-> TRUE, X |-> << >>, y |-> << >>]
             ELSE [err |-> FALSE,
                   X |-> [j \in 1..n |-> SyntheticRow(Xc, seed, n, j)] \o rest.X,
                   y |-> [j \in 1..n |-> c] \o rest.y]

fit_resample(X, y) ==
    IF Cardinality(ClassesOf(y)) <= 1 THEN [err |-> TRUE, X |-> << >>, y |-> << >>]
    ELSE LET new == SmoteFrom(X, y, SmoteSeed, ClassesOf(y) \ {MajorityClass(y)})
         IN  IF new.err THEN new
             ELSE [err |-> FALSE,
                   X |-> [i \in DOMAIN X |-> Scaled(X[i])] \o new.X,
                   y |-> y \o new.y]

---------------------------------------------------------------------------
(* RecruitmentMLModel.                                                     *)

ModelTypes == {"random_forest", "gradient_boosting"}

CV_FOLDS == 3

None ==
    [estimator |-> "None", fitted |-> FALSE, classes |-> {}, n_samples |-> 0,
     X |-> << >>, y |-> << >>]

Unfitted(estimator) ==
    [estimator |-> estimator, fitted |-> FALSE, classes |-> {}, n_samples |-> 0,
     X |-> << >>, y |-> << >>]

NoImportance == << >>

\* estimator.fit(X, y) of the two ensembles: GradientBoostingClassifier
\* raises ValueError for a y of one class, RandomForestClassifier fits it.
FitRaises(estimator, y) ==
    estimator = "gradient_boosting" /\ Cardinality(ClassesOf(y)) < 2

\* GridSearchCV(cv=3).fit: the stratified folds cannot be formed when no
\* class has 3 members; the refit of the best estimator fails as fit does.
GridSearchRaises(estimator, y) ==
    \/ \A c \in ClassesOf(y) : Count(y, c) < CV_FOLDS
    \/ FitRaises(estimator, y)

\* The fitted estimator: what it learned is a function of the set (X, y).
Fitted(estimator, X, y) ==
    [estimator |-> estimator, fitted |-> TRUE, classes |-> ClassesOf(y),
     n_samples |-> Len(y), X |-> X, y |-> y]

ColumnSeq == <<"Stage_Sequence", "Days_Since_Application">>

\* feature_importances_ of the fitted ensemble, one score per column: the
\* number of pairs of rows of different label that the column separates
\* (a column that separates no such pair scores 0).
Importance(X, y, f) ==
    Cardinality({p \in (DOMAIN y) \X (DOMAIN y) :
                    p[1] < p[2] /\ y[p[1]] # y[p[2]] /\ X[p[1]][f] # X[p[2]][f]})

\* self.model.feature_importances_: one score per column of X.
RECURSIVE Importances(_, _, _)
Importances(X, y, k) ==
    IF k = 0 THEN << >>
    ELSE Append(Importances(X, y, k - 1), Importance(X, y, ColumnSeq[k]))

\* A mutant of SortedImportance: sorted with ascending=True.
SortedImportanceAscending(X, y) ==
    LET imps == Importances(X, y, Len(ColumnSeq))
        Before(k, j) == imps[k] < imps[j] \/ (imps[k] = imps[j] /\ k < j)
        At(pos) == CHOOSE k \in DOMAIN ColumnSeq :
                      Cardinality({j \in DOMAIN ColumnSeq : Before(j, k)}) = pos - 1
    IN  [pos \in DOMAIN ColumnSeq |->
           [feature |-> ColumnSeq[At(pos)], importance |-> imps[At(pos)]]]

\* DataFrame({'feature', 'importance'}).sort_values('importance',
\* ascending=False): the rows by falling importance, ties in column order.
SortedImportance(X, y) ==
    LET imps == Importances(X, y, Len(ColumnSeq))
        imp(k) == imps[k]
        Before(k, j) == imp(k) > imp(j) \/ (imp(k) = imp(j) /\ k < j)
        At(pos) == CHOOSE k \in DOMAIN ColumnSeq :
                      Cardinality({j \in DOMAIN ColumnSeq : Before(j, k)}) = pos - 1
    IN  [pos \in DOMAIN ColumnSeq |->
           [feature |-> ColumnSeq[At(pos)], importance |-> imp(At(pos))]]

NoTrain ==
    [called |-> FALSE, use_smote |-> FALSE, tune |-> FALSE, err |-> "",
     resampled |-> FALSE, X_bal |-> << >>, y_bal |-> << >>]

\* What train does after the resampling step, on the set (X, y) it fits:
\* the error it raises ("" when it returns), self.model and
\* self.feature_importance after it.  An unsupported model_type leaves
\* self.model as it is, and fit on None raises AttributeError; a raise of
\* fit leaves the unfitted estimator in self.model.
FitStep(tune, X, y) ==
    IF model_type \notin ModelTypes
    THEN IF model = None
         THEN [err |-> "AttributeError", model |-> model,
               feature_importance |-> feature_importance]
         ELSE [err |-> "", model |-> Fitted(model.estimator, X, y),
               feature_importance |-> SortedImportance(X, y)]
    ELSE IF tune /\ GridSearchRaises(model_type, y)
    THEN [err |-> "ValueError", model |-> Unfitted("GridSearchCV"),
          feature_importance |-> feature_importance]
    ELSE IF ~tune /\ FitRaises(model_type, y)
    THEN [err |-> "ValueError", model |-> Unfitted(model_type),
          feature_importance |-> feature_importance]
    ELSE [err |-> "", model |-> Fitted(model_type, X, y),
          feature_importance |-> SortedImportance(X, y)]

\* train(X_train, y_train, use_smote, tune_hyperparameters).  A raise of
\* fit_resample leaves the object as it was.
Train(use_smote, tune) ==
    LET r    == IF use_smote THEN fit_resample(X_train, y_train)
                ELSE [err |-> FALSE,
                      X |-> [i \in DOMAIN X_train |-> Scaled(X_train[i])],
                      y |-> y_train]
        call == [NoTrain EXCEPT !.called = TRUE, !.use_smote = use_smote,
                                !.tune = tune]
        f    == FitStep(tune, r.X, r.y)
    IN  IF r.err
        THEN /\ train_call' = [call EXCEPT !.err = "ValueError"]
             /\ UNCHANGED <<model, feature_importance, first_bal>>
        ELSE /\ train_call' = [call EXCEPT !.err = f.err,
                                           !.resampled = use_smote,
                                           !.X_bal = r.X, !.y_bal = r.y]
             /\ model' = f.model
             /\ feature_importance' = f.feature_importance
             /\ first_bal' =
                  IF ~use_smote THEN first_bal
                  ELSE IF first_bal.runs = 0
                  THEN [runs |-> 1, X |-> r.X, y |-> r.y]
                  ELSE [first_bal EXCEPT !.runs = 2]

\* RecruitmentMLModel(model_type): a new object, nothing fitted.
NewModel(t) ==
    /\ model_type' = t
    /\ model' = None
    /\ feature_importance' = NoImportance
    /\ train_call' = NoTrain

MaxDraws == 2

\* Any other use of numpy's global generator advances it.
NumpyDraw ==
    /\ \E k \in 0..(MaxDraws - 1) : np_random = RngAt(0, k)
    /\ np_random' = RngNext(np_random)

---------------------------------------------------------------------------
(* RecruitmentMLModel: prediction, evaluation, save and load.  A score or  *)
(* a metric is a reduced fraction [num, den]; NaNFrac is float NaN.        *)

\* self.feature_cols: set to None by __init__ and assigned nowhere else.
NoFeatureCols == "None"

NoArtifact == << >>

NoMetrics == << >>

\* What the history keeps of a call: the labels evaluate was given, the
\* error raised, and what was returned.
NoServe ==
    [op |-> "none", y |-> << >>, err |-> "", out |-> << >>, metrics |-> NoMetrics]

\* The fitted rows nearest to the row x.
NearestFitted(m, x) ==
    LET d(i) == Dist2(m.X[i], Scaled(x))
        best == CHOOSE i \in DOMAIN m.X : \A j \in DOMAIN m.X : d(i) <= d(j)
    IN  {i \in DOMAIN m.X : d(i) = d(best)}

\* A mutant of ProbaOfDropOff: the decision score (in [-1, 1]) is returned
\* in place of the probability.
ProbaAsDecisionScore(m, x) ==
    LET N == NearestFitted(m, x)
    IN  [num |-> 2 * Cardinality({i \in N : m.y[i] = 1}) - Cardinality(N),
         den |-> Cardinality(N)]

\* predict_proba(X)[:, 1] for one row of a model fitted on both classes:
\* the share of drop-offs among the fitted rows the ensemble puts x with.
ProbaOfDropOff(m, x) ==
    LET N == NearestFitted(m, x)
    IN  Frac(Cardinality({i \in N : m.y[i] = 1}), Cardinality(N))

\* What a prediction call on self.model raises ("" when it returns):
\* None has no predict_proba, an estimator whose fit raised is not fitted,
\* and predict_proba of a model fitted on one class has a single column,
\* so that [:, 1] is out of bounds.
PredictRaises(m) ==
    IF m = None THEN "AttributeError"
    ELSE IF ~m.fitted THEN "NotFittedError"
    ELSE IF Cardinality(m.classes) < 2 THEN "IndexError"
    ELSE ""

predict_proba(m, X) == [k \in DOMAIN X |-> ProbaOfDropOff(m, X[k])]

\* self.model.predict(X): the class of the larger probability, the first
\* class on a tie; a model fitted on one class predicts that class.
predict(m, X) ==
    [k \in DOMAIN X |->
        IF Cardinality(m.classes) < 2 THEN CHOOSE c \in m.classes : TRUE
        ELSE LET pr == ProbaOfDropOff(m, X[k])
             IN  IF 2 * pr.num > pr.den THEN 1 ELSE 0]

\* (y_pred == y_test).mean()
Accuracy(y_test, y_pred) ==
    Frac(Cardinality({i \in DOMAIN y_test : y_pred[i] = y_test[i]}), Len(y_test))

\* roc_auc_score(y_test, y_pred_proba) when both classes are in y_test: the
\* share of (drop-off, continue) pairs the score orders rightly, a tie
\* counting one half.
RocAuc(y_test, proba) ==
    LET pos == {i \in DOMAIN y_test : y_test[i] = 1}
        neg == {i \in DOMAIN y_test : y_test[i] = 0}
        gt  == Cardinality({q \in pos \X neg : FracLess(proba[q[2]], proba[q[1]])})
        eq  == Cardinality({q \in pos \X neg : proba[q[1]] = proba[q[2]]})
    IN  Frac(2 * gt + eq, 2 * Cardinality(pos) * Cardinality(neg))

\* f1_score(y_test, y_pred): 0.0 (with a warning) when nothing is or is
\* predicted positive.
F1Score(y_test, y_pred) ==
    LET tp == Cardinality({i \in DOMAIN y_test : y_test[i] = 1 /\ y_pred[i] = 1})
        fp == Cardinality({i \in DOMAIN y_test : y_test[i] = 0 /\ y_pred[i] = 1})
        fn == Cardinality({i \in DOMAIN y_test : y_test[i] = 1 /\ y_pred[i] = 0})
    IN  IF 2 * tp + fp + fn = 0 THEN [num |-> 0, den |-> 1]
        ELSE Frac(2 * tp, 2 * tp + fp + fn)

\* What roc_auc_score does for a y_test of one class depends on the
\* scikit-learn release installed: it raises ValueError, or it warns and
\* returns NaN.
UndefinedAucOutcomes == {"ValueError", "nan"}

\* evaluate(X_test, y_test): the error it raises ("" when it returns) and
\* the metrics it returns.  classification_report is given two
\* target_names and raises ValueError when y_test and y_pred together hold
\* one label.
evaluate(m, X_test, y_test, undefined_auc) ==
    IF PredictRaises(m) # ""
    THEN [err |-> PredictRaises(m), metrics |-> NoMetrics]
    ELSE LET y_pred == predict(m, X_test)
             proba  == predict_proba(m, X_test)
             single == Cardinality(ClassesOf(y_test)) < 2
         IN  IF single /\ undefined_auc = "ValueError"
             THEN [err |-> "ValueError", metrics |-> NoMetrics]
             ELSE IF Cardinality(ClassesOf(y_test) \cup ClassesOf(y_pred)) # 2
             THEN [err |-> "ValueError", metrics |-> NoMetrics]
             ELSE [err |-> "",
                   metrics |->
                      [accuracy |-> Accuracy(y_test, y_pred),
                       roc_auc  |-> IF single THEN NaNFrac
                                    ELSE RocAuc(y_test, proba),
                       f1_score |-> F1Score(y_test, y_pred)]]

\* A mutant of model_data: the importance table is left out.
model_data_without_importance ==
    <<<<"model", model>>, <<"model_type", model_type>>>>

\* The dictionary save hands to joblib.dump, as its items in order.
model_data ==
    <<<<"model", model>>,
      <<"model_type", model_type>>,
      <<"feature_importance", feature_importance>>>>

Keys(data) == {data[k][1] : k \in DOMAIN data}

Item(data, key) == data[CHOOSE k \in DOMAIN data : data[k][1] = key][2]

\* load(filepath): cls(model_type=...) with model and feature_importance
\* taken from the file; KeyError when the file lacks one of the items.
load(data) ==
    IF {"model", "model_type", "feature_importance"} \subseteq Keys(data)
    THEN [err |-> "",
          model_type |-> Item(data, "model_type"),
          model |-> Item(data, "model"),
          feature_cols |-> NoFeatureCols,
          feature_importance |-> Item(data, "feature_importance")]
    ELSE [err |-> "KeyError", model_type |-> model_type, model |-> model,
          feature_cols |-> NoFeatureCols,
          feature_importance |-> feature_importance]

Evaluate(X_test, y_test) ==
    \E undefined_auc \in UndefinedAucOutcomes :
       LET r == evaluate(model, X_test, y_test, undefined_auc)
       IN  /\ serve_call' = [NoServe EXCEPT !.op = "evaluate", !.y = y_test,
                                            !.err = r.err,
                                            !.metrics = r.metrics]
           /\ UNCHANGED <<model_type, model, feature_importance, artifact>>

PredictDropOffProbability(X) ==
    /\ serve_call' =
          [NoServe EXCEPT
             !.op = "predict", !.err = PredictRaises(model),
             !.out = IF PredictRaises(model) = "" THEN predict_proba(model, X)
                     ELSE << >>]
    /\ UNCHANGED <<model_type, model, feature_importance, artifact>>

Save ==
    /\ artifact' = model_data
    /\ serve_call' = [NoServe EXCEPT !.op = "save"]
    /\ UNCHANGED <<model_type, model, feature_importance>>

\* ml_model = RecruitmentMLModel.load(filepath): the object in use from now
\* on is the loaded one.
Load ==
    /\ artifact # NoArtifact
    /\ LET r == load(artifact)
       IN  /\ model_type' = r.model_type
           /\ model' = r.model
           /\ feature_importance' = r.feature_importance
           /\ serve_call' = [NoServe EXCEPT !.op = "load", !.err = r.err]
    /\ UNCHANGED artifact

---------------------------------------------------------------------------
(* float64 arithmetic as simulate_intervention uses it.  A natural below   *)
(* 2^63 is <<h, m, l>>, the number h * Limb^2 + m * Limb + l.  A float is   *)
(* [m, e], the number m / 2^e with 2^52 <= m < 2^53, or FloatZero.          *)

Limb == 2^21

BigZero == <<0, 0, 0>>

\* x * s for a natural s below 2^9.
BigMulSmall(x, s) ==
    LET l == x[3] * s
        m == x[2] * s + l \div Limb
        h == x[1] * s + m \div Limb
    IN  <<h, m % Limb, l % Limb>>

\* The quotient and the remainder of x by d, for 0 < d <= 2^9.
BigDivSmall(x, d) ==
    LET t == (x[1] % d) * Limb + x[2]
        u == (t % d) * Limb + x[3]
    IN  [q |-> <<x[1] \div d, t \div d, u \div d>>, r |-> u % d]

BigSucc(x) ==
    IF x[3] + 1 < Limb THEN <<x[1], x[2], x[3] + 1>>
    ELSE IF x[2] + 1 < Limb THEN <<x[1], x[2] + 1, 0>>
    ELSE <<x[1] + 1, 0, 0>>

BigLeq(x, y) ==
    \/ x[1] < y[1]
    \/ x[1] = y[1] /\ x[2] < y[2]
    \/ x[1] = y[1] /\ x[2] = y[2] /\ x[3] <= y[3]

\* The number of binary digits of a natural below Limb, and of a big one.
Bits(n) == CHOOSE b \in 0..21 : n < 2^b /\ (b = 0 \/ 2^(b - 1) <= n)

BigBits(x) ==
    IF x[1] > 0 THEN 42 + Bits(x[1])
    ELSE IF x[2] > 0 THEN 21 + Bits(x[2])
    ELSE Bits(x[3])

RECURSIVE BigShiftRight(_, _)
\* floor(x / 2^k)
BigShiftRight(x, k) ==
    IF k = 0 THEN x
    ELSE IF k > 9 THEN BigShiftRight(BigDivSmall(x, 2^9).q, k - 9)
    ELSE BigDivSmall(x, 2^k).q

\* 2^52, the mantissa of the powers of two.
BigOne == <<2^10, 0, 0>>

FloatZero == [m |-> BigZero, e |-> 0]

FloatOne == [m |-> BigOne, e |-> 52]

\* The float nearest to (x + a fraction) / 2^e, ties to even; sticky says
\* that the fraction is not zero.  x has 53 to 62 binary digits.
RoundToFloat(x, sticky, e) ==
    LET s == BigBits(x) - 53
        d == BigDivSmall(x, 2^s)
        half == IF s = 0 THEN 1 ELSE 2^(s - 1)
        up == /\ s > 0
              /\ \/ d.r > half
                 \/ d.r = half /\ (sticky \/ d.q[3] % 2 = 1)
        m == IF up THEN BigSucc(d.q) ELSE d.q
    IN  IF BigBits(m) = 54 THEN [m |-> BigOne, e |-> e - s - 1]
        ELSE [m |-> m, e |-> e - s]

\* k / n in float64, for naturals 0 <= k <= n < 64, n > 0: k is scaled to
\* six binary digits, k * 2^j * 2^56 is divided by n and the 56- to 62-digit
\* quotient is rounded.
FloatDiv(k, n) ==
    IF k = 0 THEN FloatZero
    ELSE LET j == 6 - Bits(k)
             d == BigDivSmall(<<k * 2^j * 2^14, 0, 0>>, n)
         IN  RoundToFloat(d.q, d.r # 0, 56 + j)

\* x * (c / 4) in float64, for c in 4..8: x * (1 + improvement_rate) with
\* the improvement in quarters.
FloatMulQuarters(x, c) ==
    IF x = FloatZero THEN FloatZero
    ELSE RoundToFloat(BigMulSmall(x.m, c), FALSE, x.e + 2)

\* n * x in float64, for a natural n below 64.
FloatMulInt(n, x) ==
    IF x = FloatZero \/ n = 0 THEN FloatZero
    ELSE RoundToFloat(BigMulSmall(x.m, n), FALSE, x.e)

FloatLeq(x, y) ==
    \/ x = FloatZero
    \/ y # FloatZero /\ (x.e > y.e \/ (x.e = y.e /\ BigLeq(x.m, y.m)))

\* min(x, 1.0)
FloatMinOne(x) == IF FloatLeq(x, FloatOne) THEN x ELSE FloatOne

\* int(x) for a float below 2^21.
FloatToInt(x) ==
    IF x = FloatZero \/ x.e > 52 THEN 0
    ELSE BigShiftRight(x.m, x.e)[3]

---------------------------------------------------------------------------
(* ABTestingFramework: the significance test and the power analysis.  The  *)
(* arguments are Python ints, as main passes them.  A significance level   *)
(* is in thousandths, a chi-square statistic in millionths, a rate a       *)
(* reduced fraction.                                                       *)

RECURSIVE Digits(_, _, _)
\* The first k decimal digits of r / d, for 0 <= r < d.
Digits(r, d, k) ==
    IF k = 0 THEN 0
    ELSE ((r * 10) \div d) * 10^(k - 1) + Digits((r * 10) % d, d, k - 1)

\* n / d in float arithmetic, to k decimals.
FixedDiv(n, d, k) == (n \div d) * 10^k + Digits(n % d, d, k)

\* scipy.stats.chi2.isf(alpha, 1): the statistic whose p-value is alpha.
chi2_isf(alpha) ==
    CASE alpha = 10 -> 6634897
      [] alpha = 50 -> 3841459
      [] alpha = 100 -> 2705544

Alphas == {10, 50, 100}

\* The p-value scipy.stats.chi2.sf(chi2, 1), known by the significance
\* levels it is below; the p-value of a NaN statistic is NaN, below none.
chi2_sf(chi2) ==
    IF chi2 = NaN THEN {} ELSE {a \in Alphas : chi2 >= chi2_isf(a)}

\* scipy.stats.chi2_contingency(observed) of a 2x2 table, correction=True.
\* expected_freq is row sum * column sum / total in float division, so the
\* table of zeros has NaN in every cell.  With Yates' correction each
\* observed count moves towards its expected count by
\* min(0.5, |expected - observed|), and a cell adds
\* (observed - expected)^2 / expected to the statistic; Term computes it
\* with the differences in units of 1 / (2 * total).
chi2_contingency(observed) ==
    LET Cells == {<<i, j>> : i \in 1..2, j \in 1..2}
        RowSum(i) == observed[i][1] + observed[i][2]
        ColSum(j) == observed[1][j] + observed[2][j]
        total == RowSum(1) + RowSum(2)
        expected == [c \in Cells |-> Frac(RowSum(c[1]) * ColSum(c[2]), total)]
        Term(c) ==
            LET rc == RowSum(c[1]) * ColSum(c[2])
                diff == 2 * rc - 2 * total * observed[c[1]][c[2]]
                magnitude == IF Abs(diff) < total THEN Abs(diff) ELSE total
                x == Abs(diff) - magnitude
            IN  FixedDiv(x * x, 4 * total * rc, 6)
        chi2 == IF total = 0 THEN NaN
                ELSE Term(<<1, 1>>) + Term(<<1, 2>>)
                     + Term(<<2, 1>>) + Term(<<2, 2>>)
    IN  IF \E c \in Cells : observed[c[1]][c[2]] < 0
        THEN [err |-> "ValueError"]
        ELSE IF \E c \in Cells : expected[c] = Frac(0, 1)
        THEN [err |-> "ValueError"]
        ELSE [err |-> "", chi2 |-> chi2, p_value |-> chi2_sf(chi2), dof |-> 1]

\* numpy-style division: no exception, a / 0 is NaN or infinite.
FloatDivRaises(b) == FALSE

\* a / b of two Python ints raises ZeroDivisionError when b is 0.
TrueDivRaises(b) == b = 0

\* p_value > alpha, the comparison turned around.
PValueAbove(p_value, alpha) == alpha \notin p_value

\* p_value < alpha.
PValueBelow(p_value, alpha) == alpha \in p_value

NoResults == << >>

\* cohens_h is kept by its sign, the arcsine of the root being increasing
\* on [0, 1].
calculate_statistical_significance(control_success, control_total, treatment_success, treatment_total, alpha) ==
    LET contingency_table ==
            <<<<control_success, control_total - control_success>>,
              <<treatment_success, treatment_total - treatment_success>>>>
        test == chi2_contingency(contingency_table)
        p1 == Frac(control_success, control_total)
        p2 == Frac(treatment_success, treatment_total)
        cohens_h == IF p1 = NaNFrac \/ p2 = NaNFrac THEN NaN
                    ELSE IF FracLess(p1, p2) THEN 1
                    ELSE IF FracLess(p2, p1) THEN 0 - 1
                    ELSE 0
        relative_improvement ==
            IF p1 # NaNFrac /\ p1.num > 0
            THEN IF p2 = NaNFrac THEN NaNFrac
                 ELSE Frac(100 * (p2.num * p1.den - p1.num * p2.den),
                           p1.num * p2.den)
            ELSE Frac(0, 1)
    IN  IF test.err # "" THEN [err |-> test.err, out |-> NoResults]
        ELSE IF TrueDivRaises(control_total) \/ TrueDivRaises(treatment_total)
        THEN [err |-> "ZeroDivisionError", out |-> NoResults]
        ELSE [err |-> "",
              out |-> [chi_square |-> test.chi2,
                       p_value |-> test.p_value,
                       is_significant |-> PValueBelow(test.p_value, alpha),
                       alpha |-> alpha,
                       cohens_h |-> cohens_h,
                       control_rate |-> p1,
                       treatment_rate |-> p2,
                       relative_improvement |-> relative_improvement]]

\* ab_call: which method is called with which arguments, and, once it has
\* returned, what it raised or returned.
NoABCall ==
    [op |-> "none", args |-> << >>, pc |-> "idle", err |-> "",
     out |-> NoResults]

CalculateStatisticalSignificance ==
    /\ ab_call.op = "calculate_statistical_significance"
    /\ ab_call.pc = "called"
    /\ LET a == ab_call.args
           r == calculate_statistical_significance(a[1], a[2], a[3], a[4], a[5])
       IN  ab_call' = [ab_call EXCEPT !.pc = "returned",
                                      !.err = r.err, !.out = r.out]

\* np.arcsin(np.sqrt(rate)) in units of 1e-7, the rate in ten-thousandths.
arcsin_sqrt(rate) ==
    CASE rate = 2000 -> 4636476
      [] rate = 2300 -> 5001796
      [] rate = 3000 -> 5796397
      [] rate = 4000 -> 6847192
      [] rate = 5000 -> 7853982
      [] rate = 5750 -> 8606823
      [] rate = 7500 -> 10471976
      [] rate = 10000 -> 15707963

\* scipy.stats.norm.ppf(q) in units of 1e-7, q in thousandths.
norm_ppf(q) ==
    CASE q = 800 -> 8416212
      [] q = 810 -> 8778963
      [] q = 900 -> 12815516
      [] q = 950 -> 16448536
      [] q = 975 -> 19599640
      [] q = 995 -> 25758293

\* The per-group size, in thousandths, at which a two-sided z-test of two
\* equal groups detects effect_size: 2 * (z / effect_size)^2, z being the
\* sum of the critical value and the quantile of the power (the rejection
\* in the opposite tail, below 1e-5 for these powers, is left out).  The
\* quotient is A + B / 1e6 and its square is taken term by term.
SolveNobs(effect_size, z) ==
    LET A == z \div effect_size
        B == Digits(z % effect_size, effect_size, 6)
    IN  2000 * A * A + (4 * A * B) \div 1000
          + (2 * (B \div 1000) * (B \div 1000)) \div 1000

\* The solver with the power fixed at 0.80 whatever power is asked for.
zt_ind_solve_power_ignoring_power(effect_size, alpha, power) ==
    SolveNobs(effect_size, norm_ppf(1000 - alpha \div 2) + norm_ppf(800))

\* statsmodels zt_ind_solve_power(effect_size, alpha, power,
\* alternative='two-sided'), solved for nobs1 with ratio 1, in thousandths.
zt_ind_solve_power(effect_size, alpha, power) ==
    SolveNobs(effect_size, norm_ppf(1000 - alpha \div 2) + norm_ppf(power))

\* baseline_rate and expected_improvement in hundredths, alpha and power in
\* thousandths; int(np.ceil(sample_size)) is the least integer not below
\* the solved size.
power_analysis(baseline_rate, expected_improvement, alpha, power) ==
    LET new_rate == baseline_rate * (100 + expected_improvement)
        effect_size == 2 * (arcsin_sqrt(new_rate)
                              - arcsin_sqrt(baseline_rate * 100))
        sample_size == zt_ind_solve_power(effect_size, alpha, power)
    IN  (sample_size + 999) \div 1000

\* new_rate is not capped: above 1 its np.arcsin is NaN and so is the
\* effect size handed to the solver.
EffectSizeIsNaN(baseline_rate, expected_improvement) ==
    baseline_rate * (100 + expected_improvement) > 10000

\* What the call does on a NaN effect size: the root finding, or int() on
\* its NaN, raises, or the solver warns that it found no solution; no
\* sample size of the effect comes back in either case.
SolverFailures == {"ValueError", "ConvergenceWarning"}

PowerAnalysis ==
    /\ ab_call.op = "power_analysis"
    /\ ab_call.pc = "called"
    /\ LET a == ab_call.args
       IN  IF EffectSizeIsNaN(a[1], a[2])
           THEN \E failure \in SolverFailures :
                   ab_call' = [ab_call EXCEPT !.pc = "returned",
                                              !.err = failure]
           ELSE ab_call' = [ab_call EXCEPT
                               !.pc = "returned",
                               !.out = power_analysis(a[1], a[2], a[3], a[4])]

\* The floor of n / d, for d # 0.
FloorQuotient(n, d) ==
    IF d > 0 THEN n \div d ELSE (0 - n) \div (0 - d)

\* np.ceil(n / d), for d # 0.
CeilQuotient(n, d) ==
    IF d > 0 THEN 0 - ((0 - n) \div d) ELSE 0 - (n \div (0 - d))

\* The arguments are Python numbers: the division raises when
\* daily_applicants is 0 and has no other guard.
recommend_test_duration(daily_applicants, required_sample_size) ==
    LET total_needed == required_sample_size * 2
    IN  IF TrueDivRaises(daily_applicants)
        THEN [err |-> "ZeroDivisionError", out |-> NoResults]
        ELSE [err |-> "", out |-> CeilQuotient(total_needed, daily_applicants)]

RecommendTestDuration ==
    /\ ab_call.op = "recommend_test_duration"
    /\ ab_call.pc = "called"
    /\ LET r == recommend_test_duration(ab_call.args[1], ab_call.args[2])
       IN  ab_call' = [ab_call EXCEPT !.pc = "returned",
                                      !.err = r.err, !.out = r.out]

\* simulate_intervention on a df whose rows at the stage, after the
\* sampling, are n rows of which passed are not 'Rejected'; the improvement
\* rate is in quarters.  baseline_pass_rate is the mean of a boolean
\* column, passed / n in float64, NaN for no row, and int(NaN) raises.
\* improvement_pct is left out.
simulate_intervention(n, passed, improvement_quarters) ==
    LET baseline_pass_rate == FloatDiv(passed, n)
        new_pass_rate ==
            FloatMinOne(FloatMulQuarters(baseline_pass_rate,
                                         4 + improvement_quarters))
        expected_passed == FloatToInt(FloatMulInt(n, new_pass_rate))
    IN  IF n = 0 THEN [err |-> "ValueError", out |-> NoResults]
        ELSE [err |-> "",
              out |-> [sample_size |-> n,
                       baseline_pass_rate |-> baseline_pass_rate,
                       new_pass_rate |-> new_pass_rate,
                       baseline_passed |-> passed,
                       expected_passed |-> expected_passed,
                       additional_passed |-> expected_passed - passed]]

SimulateIntervention ==
    /\ ab_call.op = "simulate_intervention"
    /\ ab_call.pc = "called"
    /\ LET r == simulate_intervention(ab_call.args[1], ab_call.args[2],
                                      ab_call.args[3])
       IN  ab_call' = [ab_call EXCEPT !.pc = "returned",
                                      !.err = r.err, !.out = r.out]

---------------------------------------------------------------------------
(* transform_to_funnel.py: the loop over the employees and, for each, the  *)
(* loop over the stages.  A record of funnel_data keeps Applicant_ID,      *)
(* Stage, Stage_Sequence and Status; the dates and the fields copied from  *)
(* the employee are left out.                                              *)

stages ==
    <<"Application Received", "Resume Screening", "HR Phone Screen",
      "Technical Round", "Manager Interview", "Final Interview",
      "Offer Extended", "Hired">>

\* Before the first employee: funnel_data = [].  idx is the number of
\* employees taken so far, stage_idx the 1-based position in stages.
NoFunnel ==
    [pc |-> "employees", idx |-> 0, gets_hired |-> FALSE, stage_idx |-> 0,
     stage_sequence |-> 0, funnel_data |-> << >>]

\* 'Passed' whatever the stage.
PassedStatusAlways(stage) == "Passed"

\* 'Passed' if stage != stages[-1] else 'Hired'
PassedStatus(stage) == IF stage # stages[Len(stages)] THEN "Passed" ELSE "Hired"

\* The next row of df_employees.iterrows(); gets_hired is the outcome of
\* random.random() < conversion_prob * 2.5.
NextEmployee(n_employees, gets_hired) ==
    /\ gen.pc = "employees"
    /\ gen.idx < n_employees
    /\ gen' = [gen EXCEPT !.pc = "stages", !.idx = @ + 1,
                          !.gets_hired = gets_hired,
                          !.stage_idx = 1, !.stage_sequence = 1]

\* One turn of the loop over stages; draw is the outcome of the stage's
\* random.random() < threshold.
StageStep(draw) ==
    /\ gen.pc = "stages"
    /\ LET stage == stages[gen.stage_idx]
           applicant_id == 1000 + (gen.idx - 1)
           pass_stage == IF stage = "Application Received" THEN TRUE
                         ELSE IF stage = "Hired" THEN gen.gets_hired
                         ELSE draw
           record(status) ==
               [Applicant_ID |-> applicant_id, Stage |-> stage,
                Stage_Sequence |-> gen.stage_sequence, Status |-> status]
       IN  IF pass_stage
           THEN gen' = [gen EXCEPT
                          !.funnel_data = Append(@, record(PassedStatus(stage))),
                          !.stage_sequence = @ + 1,
                          !.stage_idx = @ + 1,
                          !.pc = IF gen.stage_idx = Len(stages)
                                 THEN "employees" ELSE "stages"]
           ELSE gen' = [gen EXCEPT
                          !.funnel_data = Append(@, record("Rejected")),
                          !.pc = "employees"]

---------------------------------------------------------------------------
(* src/api/main.py: GET /metrics.  A column value of SQLite is <<v>>, NULL *)
(* is << >>; hire_rate is in hundredths of a percent, avg_time_to_hire in  *)
(* tenths of a day.                                                        *)

SqlNull == << >>

\* Query(None): the parameter is absent.
NoParam == "None"

NoRequest ==
    [pc |-> "idle", db |-> << >>, source |-> NoParam, department |-> NoParam,
     status |-> 0, body |-> << >>]

\* "if source:" - an absent and an empty parameter add no condition.
Truthy(param) == param # NoParam /\ param # ""

\* The rows of applicant_stages the WHERE clause keeps.
Matching(db, source, department) ==
    SelectSeq(db, LAMBDA r :
        /\ Truthy(source) => r.Source = source
        /\ Truthy(department) => r.Department = department)

\* SUM(CASE WHEN Status = 'Hired' THEN 1 ELSE 0 END): NULL over no row.
SumOrNull(rows, hired_rows) ==
    IF Len(rows) = 0 THEN SqlNull ELSE <<Len(hired_rows)>>

\* round(n / d, digits) as the integer nearest to n / d, n / d being in
\* units of the last digit kept.
RoundQuotient(n, d) == (2 * n + d) \div (2 * d)

\* conn.execute(query, params).fetchone()
MetricsQuery(db, source, department) ==
    LET rows == Matching(db, source, department)
        hired_rows == SelectSeq(rows, LAMBDA r : r.Status = "Hired")
        days == [k \in DOMAIN hired_rows |-> hired_rows[k].Days_Since_Application]
    IN  [total_applicants |->
            Cardinality({rows[k].Applicant_ID : k \in DOMAIN rows}),
         hired_count |-> SumOrNull(rows, hired_rows),
         avg_time_to_hire |->
            IF Len(hired_rows) = 0 THEN SqlNull
            ELSE <<[sum |-> SumOver(DOMAIN days, days), n |-> Len(days)]>>]

\* get_overall_metrics(source, department): the status and the body of the
\* response.  FunnelMetrics raises ValidationError for a hired_count that
\* is not an int, which the framework answers with 500.
get_overall_metrics(db, source, department) ==
    LET result == MetricsQuery(db, source, department)
        total == result.total_applicants
        hired == result.hired_count
        avg == result.avg_time_to_hire
    IN  IF hired = SqlNull
        THEN [status |-> 500, body |-> "ValidationError"]
        ELSE [status |-> 200,
              body |->
                [total_applicants |-> total,
                 hired_count |-> hired[1],
                 hire_rate |-> IF total > 0
                               THEN RoundQuotient(hired[1] * 10000, total)
                               ELSE 0,
                 avg_time_to_hire |->
                    IF avg = SqlNull THEN 0
                    ELSE RoundQuotient(avg[1].sum * 10, avg[1].n)]]

GetOverallMetrics ==
    /\ api_call.pc = "requested"
    /\ LET r == get_overall_metrics(api_call.db, api_call.source,
                                    api_call.department)
       IN  api_call' = [api_call EXCEPT !.pc = "responded",
                                        !.status = r.status, !.body = r.body]

---------------------------------------------------------------------------
(* The data the operations are called with.                                *)

Sources == {"LinkedIn", "Naukri"}

Departments == {"Sales", NaNStr}

Statuses == {"Passed", "Rejected", "Hired"}

Ages == {30, 40, NaN}

Educations == {1, 2}

TablesOver(cs, R) ==
    {[cols |-> cs, rows |-> rs] : rs \in UNION {[1..n -> R] : n \in 1..MaxRows}}

FunnelRecords(S) ==
    {[c \in {"Source", "Status"} |-> IF c = "Source" THEN s ELSE t] :
        s \in Sources, t \in S}

FunnelTables == TablesOver({"Source", "Status"}, FunnelRecords({"Hired", "Rejected"}))

SourceDeptTables ==
    TablesOver({"Source", "Department"},
               {[c \in {"Source", "Department"} |->
                   IF c = "Source" THEN s ELSE d] : s \in Sources, d \in Departments})

DeptTables ==
    TablesOver({"Department"}, {[c \in {"Department"} |-> d] : d \in Departments})

RecordTables == FunnelTables \cup SourceDeptTables \cup DeptTables

EmptyTable == [cols |-> {}, rows |-> << >>]

NoMedians == << >>

---------------------------------------------------------------------------
(* The feature engineering session: one FeatureEngineer and the calls made *)
(* on it and on create_target_variable.                                    *)

NoCall ==
    [op |-> "none", df |-> EmptyTable, err |-> "", out |-> EmptyTable,
     X |-> EmptyTable, y |-> NoTarget, fit_path |-> FALSE, again |-> FALSE,
     prev_out |-> EmptyTable, df_after |-> EmptyTable]

InitFE ==
    /\ label_encoders = << >>
    /\ fit_medians = NoMedians
    /\ last_call = NoCall
    /\ fe_artifact = NoArtifact

\* No model object is in use.
IdleML ==
    /\ model_type = "random_forest"
    /\ model = None
    /\ feature_importance = NoImportance
    /\ X_train = << >>
    /\ y_train = << >>
    /\ np_random = 0
    /\ train_call = NoTrain
    /\ first_bal = [runs |-> 0, X |-> << >>, y |-> << >>]
    /\ artifact = NoArtifact
    /\ serve_call = NoServe

\* main has not been entered.
NotStarted ==
    [pc |-> "none", df |-> EmptyTable, df_features |-> EmptyTable,
     X |-> EmptyTable, y |-> NoTarget, train |-> {}, test |-> {},
     models |-> << >>, metrics |-> << >>, best_model_name |-> "",
     files |-> << >>]

Init == InitFE /\ IdleML /\ main = NotStarted /\ ab_call = NoABCall /\ gen = NoFunnel /\ api_call = NoRequest

\* The table the last call returned, when the next operation of the
\* pipeline (label, then features, then preparation) may take it.
Returned(ops) ==
    IF last_call.op \in ops /\ last_call.err = "" THEN {last_call.out} ELSE {}

CategoricalOf(df) ==
    {categorical_cols[k] : k \in DOMAIN categorical_cols} \cap df.cols

\* df_after: the caller's table once the call is over.
\* fit_path: the call fitted every categorical column of its table and
\* returned.  again: the call before this one was create_features on the
\* same table and took the fit path; prev_out is what that call returned.
CreateFeatures(df) ==
    LET r == create_features(label_encoders, df)
        again == /\ last_call.op = "create_features"
                 /\ last_call.df = df
                 /\ last_call.fit_path
    IN  /\ label_encoders' = r.encs
        /\ last_call' =
             [NoCall EXCEPT
                !.op = "create_features",
                !.df = df,
                !.err = IF r.out = ValueError THEN "ValueError" ELSE "",
                !.out = IF r.out = ValueError THEN EmptyTable ELSE r.out,
                !.fit_path = /\ r.out # ValueError
                             /\ CategoricalOf(df) # {}
                             /\ CategoricalOf(df) \cap DOMAIN label_encoders = {},
                !.again = again,
                !.prev_out = IF again THEN last_call.out ELSE EmptyTable,
                !.df_after = DataFrameCopy(df, IF r.out = ValueError THEN df
                                               ELSE r.out)]

PrepareForModeling(df) ==
    LET r == prepare_for_modeling(df, "will_drop_off")
    IN  /\ last_call' =
             [NoCall EXCEPT
                !.op = "prepare_for_modeling", !.df = df, !.X = r.X, !.y = r.y]
        /\ UNCHANGED label_encoders

\* create_target_variable is a function of the module: no object changes.
CreateTargetVariable(df) ==
    LET r == create_target_variable(df)
    IN  /\ last_call' =
             [NoCall EXCEPT
                !.op = "create_target_variable",
                !.df = df,
                !.err = IF r = KeyError THEN "KeyError" ELSE "",
                !.out = IF r = KeyError THEN EmptyTable ELSE r,
                !.df_after = DataFrameCopy(df, IF r = KeyError THEN df ELSE r)]
        /\ UNCHANGED label_encoders

\* One FeatureEngineer: create_features on any table, prepare_for_modeling
\* on the table create_features returned.
Next ==
    \/ \E df \in RecordTables :
          CreateFeatures(df) /\ UNCHANGED <<fit_medians, fe_artifact, ml_vars, main, ab_call, gen, api_call>>
    \/ \E df \in Returned({"create_features"}) :
          PrepareForModeling(df) /\ UNCHANGED <<fit_medians, fe_artifact, ml_vars, main, ab_call, gen, api_call>>

Spec == Init /\ [][Next]_vars

---------------------------------------------------------------------------
(* Labelling: create_target_variable on any table.                         *)

MaxLabelRows == 3

LabelTables ==
    {[cols |-> {"Source", "Status"}, rows |-> rs] :
        rs \in UNION {[1..n -> FunnelRecords(Statuses)] : n \in 1..MaxLabelRows}}
    \cup DeptTables

NextLabel ==
    \E df \in LabelTables :
       CreateTargetVariable(df)
          /\ UNCHANGED <<fit_medians, fe_artifact, ml_vars, main, ab_call, gen, api_call>>

SpecLabel == Init /\ [][NextLabel]_vars

---------------------------------------------------------------------------
(* Imputation: prepare_for_modeling on frames with missing numeric cells.  *)
(* fit_medians records the medians of the first frame prepared, the        *)
(* fitting set of the object.                                              *)

AgeTables ==
    TablesOver({"Age", "Education"},
               {[c \in {"Age", "Education"} |->
                   IF c = "Age" THEN a ELSE e] : a \in Ages, e \in Educations})

RecordMedians(df) ==
    fit_medians' =
        IF fit_medians = NoMedians
        THEN LET fc == feature_cols(df, "will_drop_off")
             IN  [c \in {fc[k] : k \in DOMAIN fc} |-> FillValue(df, c)]
        ELSE fit_medians

NextImpute ==
    \/ \E df \in AgeTables :
          CreateFeatures(df) /\ UNCHANGED <<fit_medians, fe_artifact, ml_vars, main, ab_call, gen, api_call>>
    \/ \E df \in AgeTables \cup Returned({"create_features"}) :
          PrepareForModeling(df) /\ RecordMedians(df)
             /\ UNCHANGED <<fe_artifact, ml_vars, main, ab_call, gen, api_call>>

SpecImpute == Init /\ [][NextImpute]_vars

---------------------------------------------------------------------------
(* Saving and restoring the FeatureEngineer.                               *)

\* self.scaler: the StandardScaler __init__ makes; it is never fitted.
NewScaler == "StandardScaler()"

\* The dictionary FeatureEngineer.save hands to joblib.dump, as its items.
fe_data ==
    <<<<"label_encoders", label_encoders>>, <<"scaler", NewScaler>>>>

FESave ==
    /\ fe_artifact' = fe_data
    /\ last_call' = [NoCall EXCEPT !.op = "save"]
    /\ UNCHANGED label_encoders

\* fe = FeatureEngineer.load(filepath): the engineer in use from now on is
\* a new one holding the encoders of the file.
FELoad ==
    /\ fe_artifact # NoArtifact
    /\ label_encoders' = Item(fe_artifact, "label_encoders")
    /\ last_call' = [NoCall EXCEPT !.op = "load"]
    /\ UNCHANGED fe_artifact

MaxSavedRows == 1

SourceAgeTables ==
    {[cols |-> {"Source", "Age"}, rows |-> rs] :
        rs \in UNION {[1..n ->
                         {[c \in {"Source", "Age"} |->
                             IF c = "Source" THEN s ELSE a] :
                                s \in Sources, a \in Ages}] :
                      n \in 1..MaxSavedRows}}

NextRestore ==
    \/ \E df \in SourceAgeTables :
          CreateFeatures(df) /\ UNCHANGED <<fit_medians, fe_artifact, ml_vars, main, ab_call, gen, api_call>>
    \/ \E df \in Returned({"create_features"}) :
          PrepareForModeling(df) /\ RecordMedians(df)
             /\ UNCHANGED <<fe_artifact, ml_vars, main, ab_call, gen, api_call>>
    \/ FESave /\ UNCHANGED <<fit_medians, ml_vars, main, ab_call, gen, api_call>>
    \/ FELoad /\ UNCHANGED <<fit_medians, ml_vars, main, ab_call, gen, api_call>>

SpecRestore == Init /\ [][NextRestore]_vars

---------------------------------------------------------------------------
(* Training: model objects are made and trained on one training set.       *)

MaxPerClass == 8

\* The labels: n0 zeros and n1 ones, class by class or alternating.
Labels(n0, n1, shape) ==
    [i \in 1..(n0 + n1) |->
        IF shape = "sorted" THEN (IF i <= n0 THEN 0 ELSE 1)
        ELSE IF i <= 2 * n0 /\ i <= 2 * n1 THEN i % 2
        ELSE IF n0 > n1 THEN 0 ELSE 1]

\* The features: distinct rows, or rows that repeat.
Features(n, shape) ==
    [i \in 1..n |->
        [f \in FeatureCols |->
           IF shape = "sorted"
           THEN (IF f = "Stage_Sequence" THEN i ELSE 0)
           ELSE (IF f = "Stage_Sequence" THEN (i * i) % 5 ELSE i % 2)]]

TrainingSets ==
    {[X |-> Features(n0 + n1, shape), y |-> Labels(n0, n1, shape)] :
        n0 \in 0..MaxPerClass, n1 \in 0..MaxPerClass, shape \in {"sorted", "mixed"}}

InitTrain ==
    /\ InitFE
    /\ model_type = "random_forest"
    /\ model = None
    /\ feature_importance = NoImportance
    /\ \E d \in TrainingSets :
          /\ Len(d.y) >= 1
          /\ X_train = d.X
          /\ y_train = d.y
    /\ np_random = 0
    /\ train_call = NoTrain
    /\ first_bal = [runs |-> 0, X |-> << >>, y |-> << >>]
    /\ artifact = NoArtifact
    /\ serve_call = NoServe
    /\ main = NotStarted
    /\ ab_call = NoABCall /\ gen = NoFunnel /\ api_call = NoRequest

NextTrain ==
    \/ \E use_smote, tune \in BOOLEAN :
          Train(use_smote, tune)
             /\ UNCHANGED <<fe_vars, model_type, X_train, y_train, np_random,
                             artifact, serve_call, main, ab_call, gen, api_call>>
    \/ \E t \in ModelTypes \cup {"svm"} :
          NewModel(t)
             /\ UNCHANGED <<fe_vars, X_train, y_train, np_random, first_bal,
                             artifact, serve_call, main, ab_call, gen, api_call>>
    \/ NumpyDraw
          /\ UNCHANGED <<fe_vars, model_type, model, feature_importance,
                         X_train, y_train, train_call, first_bal,
                         artifact, serve_call, main, ab_call, gen, api_call>>

SpecTrain == InitTrain /\ [][NextTrain]_vars

---------------------------------------------------------------------------
(* The life of a model object: made, trained, used, saved and loaded.      *)

MaxFitPerClass == 2

FitSets ==
    {[X |-> Features(n0 + n1, "sorted"), y |-> Labels(n0, n1, "sorted")] :
        n0 \in 0..MaxFitPerClass, n1 \in 0..MaxFitPerClass}

\* The rows a model is asked about.
TestRows ==
    {[f \in FeatureCols |-> IF f = "Stage_Sequence" THEN v ELSE 0] : v \in {1, 4}}

\* One row or two.
TestInputs == {<<a>> : a \in TestRows} \cup {<<a, b>> : a, b \in TestRows}

TestSets ==
    {[X |-> X, y |-> y] : X \in TestInputs, y \in {<<0>>, <<1>>}}
    \cup {[X |-> X, y |-> y] :
            X \in TestInputs, y \in {<<a, b>> : a, b \in {0, 1}}}

InitModel ==
    /\ InitFE
    /\ model_type = "random_forest"
    /\ model = None
    /\ feature_importance = NoImportance
    /\ \E d \in FitSets :
          /\ Len(d.y) >= 1
          /\ X_train = d.X
          /\ y_train = d.y
    /\ np_random = 0
    /\ train_call = NoTrain
    /\ first_bal = [runs |-> 0, X |-> << >>, y |-> << >>]
    /\ artifact = NoArtifact
    /\ serve_call = NoServe
    /\ main = NotStarted
    /\ ab_call = NoABCall /\ gen = NoFunnel /\ api_call = NoRequest

\* A model object is made, trained and used.
NextModel ==
    \/ \E use_smote, tune \in BOOLEAN :
          Train(use_smote, tune)
             /\ UNCHANGED <<fe_vars, model_type, X_train, y_train, np_random,
                             artifact, serve_call, main, ab_call, gen, api_call>>
    \/ \E t \in ModelTypes :
          NewModel(t)
             /\ UNCHANGED <<fe_vars, X_train, y_train, np_random, first_bal,
                             artifact, serve_call, main, ab_call, gen, api_call>>
    \/ \E t \in {u \in TestSets : Len(u.X) = Len(u.y)} :
          Evaluate(t.X, t.y)
             /\ UNCHANGED <<fe_vars, X_train, y_train, np_random, train_call,
                             first_bal, main, ab_call, gen, api_call>>
    \/ \E X \in TestInputs :
          PredictDropOffProbability(X)
             /\ UNCHANGED <<fe_vars, X_train, y_train, np_random, train_call,
                             first_bal, main, ab_call, gen, api_call>>

SpecModel == InitModel /\ [][NextModel]_vars

\* The two test rows, one near each end of the fitted rows.
ProbeInput ==
    <<[f \in FeatureCols |-> IF f = "Stage_Sequence" THEN 1 ELSE 0],
      [f \in FeatureCols |-> IF f = "Stage_Sequence" THEN 4 ELSE 0]>>

\* A model object is made, trained, used, saved and loaded.
NextPersist ==
    \/ \E use_smote \in BOOLEAN :
          Train(use_smote, FALSE)
             /\ UNCHANGED <<fe_vars, model_type, X_train, y_train, np_random,
                             artifact, serve_call, main, ab_call, gen, api_call>>
    \/ \E t \in ModelTypes :
          NewModel(t)
             /\ UNCHANGED <<fe_vars, X_train, y_train, np_random, first_bal,
                             artifact, serve_call, main, ab_call, gen, api_call>>
    \/ Evaluate(ProbeInput, <<0, 1>>)
          /\ UNCHANGED <<fe_vars, X_train, y_train, np_random, train_call,
                         first_bal, main, ab_call, gen, api_call>>
    \/ PredictDropOffProbability(ProbeInput)
          /\ UNCHANGED <<fe_vars, X_train, y_train, np_random, train_call,
                         first_bal, main, ab_call, gen, api_call>>
    \/ Save /\ UNCHANGED <<fe_vars, X_train, y_train, np_random, train_call,
                           first_bal, main, ab_call, gen, api_call>>
    \/ Load /\ UNCHANGED <<fe_vars, X_train, y_train, np_random, train_call,
                           first_bal, main, ab_call, gen, api_call>>

SpecPersist == InitModel /\ [][NextPersist]_vars


---------------------------------------------------------------------------
(* main of ml_model.py, from the loaded table to the train/test split.     *)

MaxRecords == 6

SourceSeq == <<"LinkedIn", "Naukri">>

StatusSeq == <<"Hired", "Passed", "Rejected">>

\* The k-th kind of record of the loaded table.
RecordOf(k) ==
    [c \in {"Source", "Status"} |->
        IF c = "Source" THEN SourceSeq[(k \div Len(StatusSeq)) + 1]
        ELSE StatusSeq[(k % Len(StatusSeq)) + 1]]

\* pd.read_csv('data/hr_recruitment_funnel.csv'): the loaded tables, one
\* for every multiset of records (the records in a fixed order).
LoadedTables ==
    LET K == 0 .. (Len(SourceSeq) * Len(StatusSeq) - 1)
        Ordered(ks) == \A i \in DOMAIN ks : i = 1 \/ ks[i - 1] <= ks[i]
    IN  {[cols |-> {"Source", "Status"},
          rows |-> [i \in DOMAIN ks |-> RecordOf(ks[i])]] :
            ks \in {q \in UNION {[1..n -> K] : n \in 1..MaxRecords} : Ordered(q)}}

\* sklearn's _approximate_mode: n_draws samples shared out over the classes
\* in proportion to counts; a class gets the floor of its share, and the
\* classes with the largest remainders one more (equal remainders are
\* broken by the generator: any of them).
ApproximateMode(counts, n_draws) ==
    LET C      == DOMAIN counts
        total  == SumOver(C, counts)
        fl(c)  == (counts[c] * n_draws) \div total
        rem(c) == (counts[c] * n_draws) % total
    IN  {a \in [C -> 0..n_draws] :
            /\ \A c \in C : a[c] \in {fl(c), fl(c) + 1}
            /\ SumOver(C, a) = n_draws
            /\ \A c, d \in C : a[c] > fl(c) /\ a[d] = fl(d) => rem(c) >= rem(d)}

\* train_test_split(X, y, test_size=0.2, random_state=42, stratify=y): the
\* sizes of the two parts.
NTest(n) == (n + 4) \div 5

NTrain(n) == n - NTest(n)

\* The split raises ValueError when the train part would be empty, when a
\* class has a single member, or when a part is smaller than the number of
\* classes.
SplitRaises(y) ==
    \/ NTrain(Len(y)) = 0
    \/ \E c \in ClassesOf(y) : Count(y, c) < 2
    \/ NTrain(Len(y)) < Cardinality(ClassesOf(y))
    \/ NTest(Len(y)) < Cardinality(ClassesOf(y))

\* The splits the shuffle can produce: the rows of the two parts.  Which
\* rows of a class go to the test part depends on the permutation drawn.
train_test_split(y) ==
    LET counts == [c \in ClassesOf(y) |-> Count(y, c)]
    IN  {[train |-> (DOMAIN y) \ te, test |-> te] :
            te \in {t \in SUBSET (DOMAIN y) :
                      \E a \in ApproximateMode(counts, NTrain(Len(y))) :
                         \A c \in ClassesOf(y) :
                            Cardinality({i \in t : y[i] = c}) = counts[c] - a[c]}}

\* df = pd.read_csv(...)
MainLoad(df) ==
    /\ main.pc = "none"
    /\ main' = [main EXCEPT !.pc = "loaded", !.df = df]
    /\ UNCHANGED label_encoders

\* df = create_target_variable(df)
MainLabel ==
    /\ main.pc = "loaded"
    /\ main' = [main EXCEPT !.pc = "labelled",
                            !.df = create_target_variable(main.df)]
    /\ UNCHANGED label_encoders

\* fe = FeatureEngineer(); df_features = fe.create_features(df)
MainFeatures ==
    /\ main.pc = "labelled"
    /\ LET r == create_features(<< >>, main.df)
       IN  /\ label_encoders' = r.encs
           /\ main' = [main EXCEPT !.pc = "featured", !.df_features = r.out]

\* X, y, feature_cols = fe.prepare_for_modeling(df_features, 'will_drop_off')
MainPrepare ==
    /\ main.pc = "featured"
    /\ LET r == prepare_for_modeling(main.df_features, "will_drop_off")
       IN  main' = [main EXCEPT !.pc = "prepared", !.X = r.X, !.y = r.y]
    /\ UNCHANGED label_encoders

\* X_train, X_test, y_train, y_test = train_test_split(...)
MainSplit ==
    /\ main.pc = "prepared"
    /\ IF SplitRaises(main.y)
       THEN main' = [main EXCEPT !.pc = "ValueError"]
       ELSE \E s \in train_test_split(main.y) :
               main' = [main EXCEPT !.pc = "split",
                                    !.train = s.train, !.test = s.test]
    /\ UNCHANGED label_encoders

NextMain ==
    \/ \E df \in LoadedTables :
          MainLoad(df) /\ UNCHANGED <<fit_medians, last_call, fe_artifact, ml_vars, ab_call, gen, api_call>>
    \/ MainLabel /\ UNCHANGED <<fit_medians, last_call, fe_artifact, ml_vars, ab_call, gen, api_call>>
    \/ MainFeatures /\ UNCHANGED <<fit_medians, last_call, fe_artifact, ml_vars, ab_call, gen, api_call>>
    \/ MainPrepare /\ UNCHANGED <<fit_medians, last_call, fe_artifact, ml_vars, ab_call, gen, api_call>>
    \/ MainSplit /\ UNCHANGED <<fit_medians, last_call, fe_artifact, ml_vars, ab_call, gen, api_call>>

SpecMain == Init /\ [][NextMain]_vars

---------------------------------------------------------------------------
(* main of ml_model.py, from the split to the saved files.  main.models    *)
(* holds rf_model and gb_model, main.metrics rf_metrics and gb_metrics,    *)
(* each under its model_type; main.files is the models directory.          *)

\* The labels of the rows of a part of the split.
LabelsOf(y, part) ==
    LET idx == SelectSeq([i \in DOMAIN y |-> i], LAMBDA i : i \in part)
    IN  [k \in DOMAIN idx |-> y[idx[k]]]

\* What train(X_train, y_train, use_smote=True) raises ("" when it
\* returns).  It depends on the labels alone; the rows stand in for
\* X_train.
TrainRaises(t, y) ==
    LET r == fit_resample(Features(Len(y), "sorted"), y)
    IN  IF r.err \/ FitRaises(t, r.y) THEN "ValueError" ELSE ""

\* The scores an ensemble gives to the rows of the test part.  They depend
\* on the kind of ensemble and on its fit: any scores.
ScoreValues == {[num |-> 0, den |-> 1], [num |-> 1, den |-> 1]}

\* evaluate(X_test, y_test) of a model that scores the test rows proba: as
\* evaluate, with the predictions of that model.
evaluate_scored(y_test, proba, undefined_auc) ==
    LET y_pred == [k \in DOMAIN proba |->
                      IF 2 * proba[k].num > proba[k].den THEN 1 ELSE 0]
        single == Cardinality(ClassesOf(y_test)) < 2
    IN  IF single /\ undefined_auc = "ValueError"
        THEN [err |-> "ValueError", metrics |-> NoMetrics]
        ELSE IF Cardinality(ClassesOf(y_test) \cup ClassesOf(y_pred)) # 2
        THEN [err |-> "ValueError", metrics |-> NoMetrics]
        ELSE [err |-> "",
              metrics |->
                 [accuracy |-> Accuracy(y_test, y_pred),
                  roc_auc  |-> IF single THEN NaNFrac
                               ELSE RocAuc(y_test, proba),
                  f1_score |-> F1Score(y_test, y_pred)]]

\* The position of main after the steps of a model.
PcOf(t, step) ==
    (IF t = "random_forest" THEN "rf_" ELSE "gb_") \o step

\* The file a model is saved to.
FileOf(t) == t \o "_model.pkl"

\* m = RecruitmentMLModel(model_type=t); m.train(X_train, y_train,
\* use_smote=True)
MainTrain(t) ==
    /\ main.pc = IF t = "random_forest" THEN "split" ELSE "rf_saved"
    /\ LET y_train_ == LabelsOf(main.y, main.train)
           y_test   == LabelsOf(main.y, main.test)
       IN  IF TrainRaises(t, y_train_) # ""
           THEN main' = [main EXCEPT !.pc = TrainRaises(t, y_train_)]
           ELSE \E proba \in [DOMAIN y_test -> ScoreValues] :
                   main' = [main EXCEPT
                              !.pc = PcOf(t, "trained"),
                              !.models = Append(@, [model_type |-> t,
                                                    proba |-> proba])]
    /\ UNCHANGED label_encoders

\* m_metrics = m.evaluate(X_test, y_test)
MainEvaluate(t) ==
    /\ main.pc = PcOf(t, "trained")
    /\ \E undefined_auc \in UndefinedAucOutcomes :
          LET m == main.models[Len(main.models)]
              r == evaluate_scored(LabelsOf(main.y, main.test), m.proba,
                                   undefined_auc)
          IN  IF r.err # ""
              THEN main' = [main EXCEPT !.pc = r.err]
              ELSE main' = [main EXCEPT !.pc = PcOf(t, "evaluated"),
                                        !.metrics = Append(@, r.metrics)]
    /\ UNCHANGED label_encoders

\* m.save('models/<model_type>_model.pkl')
MainSave(t) ==
    /\ main.pc = PcOf(t, "evaluated")
    /\ main' = [main EXCEPT
                  !.pc = PcOf(t, "saved"),
                  !.files = Append(@, <<FileOf(t), main.models[Len(main.models)]>>)]
    /\ UNCHANGED label_encoders

\* A mutant of RocAucGreater: a tie counts as greater.
RocAucNotLess(a, b) == ~FracLess(a, b)

\* rf_metrics['roc_auc'] > gb_metrics['roc_auc']; a comparison with NaN is
\* False.
RocAucGreater(a, b) == a # NaNFrac /\ b # NaNFrac /\ FracLess(b, a)

\* The comparison, best_model.save('models/best_model.pkl') and
\* fe.save('models/feature_engineer.pkl').
MainSaveBest ==
    /\ main.pc = "gb_saved"
    /\ LET rf_model == main.models[1]
           gb_model == main.models[2]
           rf_metrics == main.metrics[1]
           gb_metrics == main.metrics[2]
           best_model_name ==
              IF RocAucGreater(rf_metrics.roc_auc, gb_metrics.roc_auc)
              THEN "Random Forest" ELSE "Gradient Boosting"
           best_model == IF best_model_name = "Random Forest"
                         THEN rf_model ELSE gb_model
       IN  main' = [main EXCEPT
                      !.pc = "done",
                      !.best_model_name = best_model_name,
                      !.files = @ \o <<<<"best_model.pkl", best_model>>,
                                       <<"feature_engineer.pkl", fe_data>>>>]
    /\ UNCHANGED label_encoders

NextPipeline ==
    \/ NextMain
    \/ \E t \in ModelTypes :
          MainTrain(t) /\ UNCHANGED <<fit_medians, last_call, fe_artifact, ml_vars, ab_call, gen, api_call>>
    \/ \E t \in ModelTypes :
          MainEvaluate(t) /\ UNCHANGED <<fit_medians, last_call, fe_artifact, ml_vars, ab_call, gen, api_call>>
    \/ \E t \in ModelTypes :
          MainSave(t) /\ UNCHANGED <<fit_medians, last_call, fe_artifact, ml_vars, ab_call, gen, api_call>>
    \/ MainSaveBest /\ UNCHANGED <<fit_medians, last_call, fe_artifact, ml_vars, ab_call, gen, api_call>>

SpecPipeline == Init /\ [][NextPipeline]_vars

---------------------------------------------------------------------------
(* The API: one request on a database of MaxApplicants applicants.         *)

MaxApplicants == 2

ApiDepartments == {"Sales", "IT"}

\* The rows of one applicant as transform_to_funnel.py writes them: a
\* 'Passed' row, then the row of the stage that hired or rejected.
ApplicantRows(id, source, department, hired_after) ==
    <<[Applicant_ID |-> id, Source |-> source, Department |-> department,
       Status |-> "Passed", Days_Since_Application |-> 0],
      [Applicant_ID |-> id, Source |-> source, Department |-> department,
       Status |-> IF hired_after > 0 THEN "Hired" ELSE "Rejected",
       Days_Since_Application |-> IF hired_after > 0 THEN hired_after ELSE 5]>>

\* An applicant: its source, its department, and the days after which it
\* was hired (0: rejected).
ApplicantKinds == {"LinkedIn", "Naukri"} \X ApiDepartments \X {0, 10, 25}

RECURSIVE StagesTable(_)
StagesTable(apps) ==
    IF apps = << >> THEN << >>
    ELSE LET n == Len(apps)
         IN  StagesTable(SubSeq(apps, 1, n - 1))
               \o ApplicantRows(n, apps[n][1], apps[n][2], apps[n][3])

Databases ==
    {StagesTable(apps) :
        apps \in UNION {[1..n -> ApplicantKinds] : n \in 0..MaxApplicants}}

SourceParams == {NoParam, "", "LinkedIn", "Naukri", "Referral"}

DepartmentParams == {NoParam, "Sales", "Legal"}

InitApi ==
    /\ InitFE /\ IdleML /\ main = NotStarted
    /\ ab_call = NoABCall /\ gen = NoFunnel
    /\ \E db \in Databases, source \in SourceParams,
          department \in DepartmentParams :
          api_call = [NoRequest EXCEPT !.pc = "requested", !.db = db,
                                       !.source = source,
                                       !.department = department]

NextApi ==
    GetOverallMetrics /\ UNCHANGED <<fe_vars, ml_vars, main, ab_call, gen>>

SpecApi == InitApi /\ [][NextApi]_vars

---------------------------------------------------------------------------
(* Experiment evaluation: the calls made on one ABTestingFramework.        *)

MaxCount == 4

\* Every call with counts up to MaxCount, and the two calls of an
\* experiment with 100 applicants per group.
SignificanceCalls ==
    LET Counts ==
            {<<cs, ct, ts, tt>> : cs \in 0..MaxCount, ct \in 0..MaxCount,
                                  ts \in 0..MaxCount, tt \in 0..MaxCount}
            \cup {<<50, 100, 70, 100>>, <<50, 100, 51, 100>>}
    IN  {[NoABCall EXCEPT !.op = "calculate_statistical_significance",
                          !.args = <<c[1], c[2], c[3], c[4], alpha>>,
                          !.pc = "called"] : c \in Counts, alpha \in Alphas}

Powers == {800, 810, 900, 950}

\* Baseline rates 0.20, 0.50 and 0.90, relative improvements of 15%, 50%
\* and 100%.
PowerCalls ==
    {[NoABCall EXCEPT !.op = "power_analysis",
                      !.args = <<b, e, alpha, power>>,
                      !.pc = "called"] :
        b \in {20, 50, 90}, e \in {15, 50, 100},
        alpha \in Alphas, power \in Powers}

MaxDaily == 4

MaxRequired == 6

DurationCalls ==
    {[NoABCall EXCEPT !.op = "recommend_test_duration",
                      !.args = <<daily, required>>,
                      !.pc = "called"] :
        daily \in (0 - MaxDaily)..MaxDaily, required \in 0..MaxRequired}

MaxStageRecords == 22

\* Improvement rates 0, 0.25, 0.5 and 1.0.
ImprovementQuarters == {0, 1, 2, 4}

InterventionCalls ==
    {[NoABCall EXCEPT !.op = "simulate_intervention",
                      !.args = c,
                      !.pc = "called"] :
        c \in {x \in (0..MaxStageRecords) \X (0..MaxStageRecords)
                       \X ImprovementQuarters : x[2] <= x[1]}}

InitAB ==
    /\ InitFE /\ IdleML /\ main = NotStarted
    /\ ab_call \in SignificanceCalls \cup PowerCalls \cup DurationCalls
                    \cup InterventionCalls
    /\ gen = NoFunnel /\ api_call = NoRequest

NextAB ==
    \/ CalculateStatisticalSignificance /\ UNCHANGED <<fe_vars, ml_vars, main, gen, api_call>>
    \/ PowerAnalysis /\ UNCHANGED <<fe_vars, ml_vars, main, gen, api_call>>
    \/ RecommendTestDuration /\ UNCHANGED <<fe_vars, ml_vars, main, gen, api_call>>
    \/ SimulateIntervention /\ UNCHANGED <<fe_vars, ml_vars, main, gen, api_call>>

SpecAB == InitAB /\ [][NextAB]_vars

---------------------------------------------------------------------------
(* Generation of the funnel data from MaxEmployees employee records.       *)

MaxEmployees == 2

NextGen ==
    \/ \E gets_hired \in BOOLEAN :
          NextEmployee(MaxEmployees, gets_hired)
             /\ UNCHANGED <<fe_vars, ml_vars, main, ab_call, api_call>>
    \/ \E draw \in BOOLEAN :
          StageStep(draw) /\ UNCHANGED <<fe_vars, ml_vars, main, ab_call, api_call>>

SpecGen == Init /\ [][NextGen]_vars

---------------------------------------------------------------------------
(* Stage and time features: the first create_features call of an engineer, *)
(* on records with a stage number and a number of elapsed days.            *)

MaxStageRows == 2

StageTables ==
    {[cols |-> {"Stage_Sequence", "Days_Since_Application"}, rows |-> rs] :
        rs \in UNION {[1..n ->
                         {[c \in {"Stage_Sequence", "Days_Since_Application"} |->
                             IF c = "Stage_Sequence" THEN q ELSE d] :
                                q \in {1, 3, 4, 5, 6, 8}, d \in {0, 50, 51}}] :
                      n \in 1..MaxStageRows}}

NextStage ==
    \/ \E df \in StageTables :
          /\ last_call = NoCall
          /\ CreateFeatures(df)
          /\ UNCHANGED <<fit_medians, fe_artifact, ml_vars, main, ab_call, gen, api_call>>
    \/ \E df \in Returned({"create_features"}) :
          PrepareForModeling(df)
             /\ UNCHANGED <<fit_medians, fe_artifact, ml_vars, main, ab_call, gen, api_call>>

SpecStage == Init /\ [][NextStage]_vars

---------------------------------------------------------------------------
(* Labelling and feature creation in any order, on fresh tables and on the *)
(* tables the calls returned.                                              *)

MaxFrameRows == 1

FrameTables ==
    {[cols |-> {"Source", "Status"}, rows |-> rs] :
        rs \in UNION {[1..n -> FunnelRecords(Statuses)] : n \in 1..MaxFrameRows}}
    \cup DeptTables

NextFrame ==
    \/ \E df \in FrameTables \cup Returned({"create_target_variable"}) :
          CreateFeatures(df)
             /\ UNCHANGED <<fit_medians, fe_artifact, ml_vars, main, ab_call, gen, api_call>>
    \/ \E df \in FrameTables
                   \cup Returned({"create_target_variable", "create_features"}) :
          CreateTargetVariable(df)
             /\ UNCHANGED <<fit_medians, fe_artifact, ml_vars, main, ab_call, gen, api_call>>

SpecFrame == Init /\ [][NextFrame]_vars

---------------------------------------------------------------------------
(* Claims about feature_engineering.py.                                    *)

\* C1: create_target_variable returns one record per input record, and a
\* record's will_drop_off is 1 exactly when its Status is 'Rejected', and 0
\* for every other record.
C1_LabelIsRejected ==
    last_call.op = "create_target_variable" /\ HasCol(last_call.df, "Status") =>
        /\ last_call.err = ""
        /\ Idx(last_call.out) = Idx(last_call.df)
        /\ \A i \in Idx(last_call.df) :
              /\ last_call.out.rows[i]["will_drop_off"] \in {0, 1}
              /\ last_call.out.rows[i]["will_drop_off"] = 1
                    <=> last_call.df.rows[i]["Status"] = "Rejected"

C1_Witness ==
    /\ last_call.op = "create_target_variable"
    /\ last_call.err = ""
    /\ \E i, j \in Idx(last_call.df) :
          /\ last_call.df.rows[i]["Status"] = "Rejected"
          /\ last_call.df.rows[j]["Status"] = "Hired"
          /\ last_call.out.rows[i]["will_drop_off"] = 1
          /\ last_call.out.rows[j]["will_drop_off"] = 0

\* C2: create_features called again on the table the encoders were fitted
\* on (the transform path) returns exactly the table the fitting call
\* returned.
C2_TransformReproducesFit ==
    last_call.op = "create_features" /\ last_call.again =>
        /\ last_call.err = ""
        /\ last_call.out = last_call.prev_out

C2_Witness ==
    /\ last_call.op = "create_features"
    /\ last_call.again
    /\ ~last_call.fit_path
    /\ last_call.out = last_call.prev_out
    /\ HasCol(last_call.out, "Source_encoded")
    /\ \E i, j \in Idx(last_call.out) :
          /\ last_call.out.rows[i]["Source_encoded"] = 0
          /\ last_call.out.rows[j]["Source_encoded"] = 1

UnseenIn(encs, df) ==
    \E col \in DOMAIN encs \cap df.cols : Unseen(encs[col], StrColumn(df, col))

KeepsFitted(encs, encs2) ==
    \A col \in DOMAIN encs : col \in DOMAIN encs2 /\ encs2[col] = encs[col]

\* C3: a create_features call on data holding a category value that the
\* fitted encoder of its column has not seen ends in an error, returns no
\* table, and leaves every fitted encoder as it was.
C3_UnseenCategoryIsError ==
    [][last_call'.op = "create_features" /\ UnseenIn(label_encoders, last_call'.df)
         => /\ last_call'.err = "ValueError"
            /\ last_call'.out = EmptyTable
            /\ KeepsFitted(label_encoders, label_encoders')]_vars

C3_Witness ==
    /\ last_call.op = "create_features"
    /\ last_call.err = "ValueError"
    /\ "Source" \in DOMAIN label_encoders
    /\ label_encoders["Source"] = <<"LinkedIn">>
    /\ HasCol(last_call.df, "Source")
    /\ \E i \in Idx(last_call.df) : last_call.df.rows[i]["Source"] = "Naukri"

\* C4: no call of create_features or prepare_for_modeling changes the
\* mapping of a fitted encoder, and a create_features call that returns
\* gives every value of a fitted column the code the encoder held for it
\* before the call.
C4_FittedMappingIsStable ==
    [][/\ KeepsFitted(label_encoders, label_encoders')
       /\ last_call'.op = "create_features" /\ last_call'.err = "" =>
             \A col \in DOMAIN label_encoders \cap last_call'.df.cols :
                \A i \in Idx(last_call'.df) :
                   last_call'.out.rows[i][col \o "_encoded"]
                      = CodeOf(label_encoders[col],
                               astype_str(last_call'.df.rows[i][col]))]_vars

C4_Witness ==
    /\ last_call.op = "create_features"
    /\ last_call.err = ""
    /\ ~last_call.fit_path
    /\ "Source" \in DOMAIN label_encoders
    /\ label_encoders["Source"] = <<"LinkedIn", "Naukri">>
    /\ HasCol(last_call.df, "Source")
    /\ Len(last_call.df.rows) = 1
    /\ last_call.df.rows[1]["Source"] = "Naukri"
    /\ last_call.out.rows[1]["Source_encoded"] = 1

\* C5: the value prepare_for_modeling puts into a missing cell is the
\* median of that column in the fitting set (the first frame prepared), not
\* a median of the frame being prepared.
C5_FillIsFitMedian ==
    last_call.op = "prepare_for_modeling" /\ fit_medians # NoMedians =>
        \A c \in last_call.X.cols \cap DOMAIN fit_medians :
           \A i \in Idx(last_call.df) :
              IsNaNCell(ColKind(c), AsFloat(ColKind(c), last_call.df.rows[i][c]))
                 => last_call.X.rows[i][c] = fit_medians[c]

\* C6: in the train/test pipeline the Source_success_rate of every row,
\* training or test, is the rate of 'Hired' among the training rows of its
\* source: no test row's Status contributes to it.
C6_RateFromTrainingRows ==
    main.pc = "split" =>
        \A i \in Idx(main.df) :
           LET G == {j \in main.train :
                       main.df.rows[j]["Source"] = main.df.rows[i]["Source"]}
           IN  G # {} =>
                  main.X.rows[i]["Source_success_rate"]
                     = Frac(Cardinality({j \in G :
                                           main.df.rows[j]["Status"] = "Hired"}),
                            Cardinality(G))

---------------------------------------------------------------------------
(* Claims about the resampling and fitting steps of train.                 *)

\* The smaller of the two class counts of y (0 when a class is absent).
MinorityCount(y) ==
    IF Count(y, 0) <= Count(y, 1) THEN Count(y, 0) ELSE Count(y, 1)

MinorityLabel(y) == IF Count(y, 0) <= Count(y, 1) THEN 0 ELSE 1

\* C7: whenever train runs with use_smote=True and the resampling succeeds,
\* the resampled labels hold as many samples of class 1 as of class 0, every
\* original sample is retained (in place), and every added sample is of the
\* minority class.
C7_ResampleBalances ==
    train_call.resampled =>
        /\ Count(train_call.y_bal, 1) = Count(train_call.y_bal, 0)
        /\ Len(train_call.y_bal) >= Len(y_train)
        /\ Len(train_call.X_bal) = Len(train_call.y_bal)
        /\ \A i \in DOMAIN y_train :
              /\ train_call.y_bal[i] = y_train[i]
              /\ train_call.X_bal[i] = Scaled(X_train[i])
        /\ \A i \in DOMAIN train_call.y_bal :
              i > Len(y_train) => train_call.y_bal[i] = MinorityLabel(y_train)

C7_Witness ==
    /\ train_call.resampled
    /\ Count(y_train, 1) = K_NEIGHBORS + 1
    /\ Count(y_train, 0) = K_NEIGHBORS + 3
    /\ Len(train_call.y_bal) = Len(y_train) + 2
    /\ train_call.y_bal[Len(train_call.y_bal)] = 1
    /\ Count(train_call.y_bal, 1) = Count(train_call.y_bal, 0)

C9_ResampleDeterministic ==
    train_call.resampled /\ first_bal.runs >= 1 =>
        /\ train_call.X_bal = first_bal.X
        /\ train_call.y_bal = first_bal.y

C9_Witness ==
    /\ train_call.resampled
    /\ first_bal.runs = 2
    /\ np_random # 0
    /\ Len(train_call.y_bal) > Len(y_train)
    /\ train_call.X_bal = first_bal.X

\* C10: train on a label vector of one class raises an error and leaves
\* the object without a fitted model, for both algorithms and both values
\* of use_smote.
C10_SingleClassRaises ==
    /\ train_call.called
    /\ model_type \in ModelTypes
    /\ Cardinality(ClassesOf(y_train)) = 1
    => /\ train_call.err # ""
       /\ ~model.fitted

---------------------------------------------------------------------------
(* Claims about evaluation, prediction and persistence of the model.       *)

\* C11: evaluate called with test labels of one class raises an error and
\* returns no metrics dictionary.
C11_SingleClassTestRaises ==
    serve_call.op = "evaluate" /\ Cardinality(ClassesOf(serve_call.y)) = 1 =>
        /\ serve_call.err # ""
        /\ serve_call.metrics = NoMetrics

\* C12: after a train call that completed, feature_importance has one row
\* per training column, each row pairs a column with the importance the
\* fitted model gives it, and the rows are in non-increasing order of
\* importance.
C12_ImportancePerColumnSorted ==
    train_call.called /\ train_call.err = "" =>
        /\ Len(feature_importance) = Len(ColumnSeq)
        /\ \A c \in DOMAIN ColumnSeq :
              Cardinality({k \in DOMAIN feature_importance :
                             feature_importance[k].feature = ColumnSeq[c]}) = 1
        /\ \A k \in DOMAIN feature_importance :
              feature_importance[k].importance
                 = Importance(model.X, model.y, feature_importance[k].feature)
        /\ \A k \in DOMAIN feature_importance :
              k < Len(feature_importance) =>
                 feature_importance[k].importance
                    >= feature_importance[k + 1].importance

C12_Witness ==
    /\ train_call.called
    /\ train_call.err = ""
    /\ model.fitted
    /\ Len(feature_importance) = 2
    /\ feature_importance[1].feature = "Days_Since_Application"
    /\ feature_importance[1].importance > feature_importance[2].importance
    /\ feature_importance[2].importance > 0

\* A step that is an evaluate, predict or save call.
ServeStep ==
    /\ serve_call'.op \in {"evaluate", "predict", "save"}
    /\ serve_call' # serve_call \/ artifact' # artifact

\* C13: an evaluate, predict_drop_off_probability or save call leaves the
\* model, model_type and feature_importance as they were, and every value
\* predict_drop_off_probability returns lies in [0, 1].
C13_ServingIsReadOnly ==
    [][/\ ServeStep =>
             /\ model' = model
             /\ model_type' = model_type
             /\ feature_importance' = feature_importance
       /\ serve_call'.op = "predict" /\ serve_call'.err = "" =>
             \A k \in DOMAIN serve_call'.out :
                /\ serve_call'.out[k].den > 0
                /\ 0 <= serve_call'.out[k].num
                /\ serve_call'.out[k].num <= serve_call'.out[k].den]_vars

C13_Witness ==
    /\ serve_call.op = "predict"
    /\ serve_call.err = ""
    /\ model.fitted
    /\ artifact # NoArtifact
    /\ Len(serve_call.out) = 2
    /\ serve_call.out[1] = [num |-> 0, den |-> 1]
    /\ serve_call.out[2] = [num |-> 1, den |-> 1]

\* C14: load(save(m)) is a model whose fitted estimator, model_type and
\* feature_importance are those of m, and whose predictions on a fixed
\* input are those of m.
C14_SaveLoadRoundTrip ==
    [][/\ serve_call'.op = "save"
       /\ serve_call' # serve_call \/ artifact' # artifact
       => LET r == load(artifact')
          IN  /\ r.err = ""
              /\ r.model = model
              /\ r.model_type = model_type
              /\ r.feature_importance = feature_importance
              /\ PredictRaises(model) = "" =>
                    predict_proba(r.model, ProbeInput)
                       = predict_proba(model, ProbeInput)]_vars

\* The object in use came from load: it is fitted although no train call
\* was made on it.
C14_Witness ==
    /\ serve_call.op = "load"
    /\ serve_call.err = ""
    /\ train_call = NoTrain
    /\ model.fitted
    /\ Cardinality(model.classes) = 2
    /\ feature_importance # NoImportance
    /\ model_type = "gradient_boosting"

\* C15: the saved artifact holds the fitted model, the ordered list of the
\* feature columns used at fit time, and the importance ranking; after
\* train and save that list is the columns of the training matrix in order.
C15_ArtifactHoldsFeatureNames ==
    /\ artifact # NoArtifact
    /\ "model" \in Keys(artifact)
    /\ Item(artifact, "model").fitted
    => /\ {"model", "feature_cols", "feature_importance"} \subseteq Keys(artifact)
       /\ Item(artifact, "feature_cols") = ColumnSeq

\* C16: the file FeatureEngineer.save writes holds the fitted categorical
\* encoders and the imputation medians of the fitting set, from which a
\* restored FeatureEngineer encodes and imputes as at training time.
C16_ArtifactHoldsEncodersAndMedians ==
    fe_artifact # NoArtifact /\ fit_medians # NoMedians =>
        /\ {"label_encoders", "medians"} \subseteq Keys(fe_artifact)
        /\ Item(fe_artifact, "medians") = fit_medians

---------------------------------------------------------------------------
(* Claims about the experiment evaluation of ab_testing.py.                *)

ABReturned(op) == ab_call.op = op /\ ab_call.pc = "returned"

\* C17: calculate_statistical_significance reports control_rate =
\* control_success / control_total and treatment_rate = treatment_success /
\* treatment_total, and is_significant is true exactly when the p-value of
\* the chi-square test is below alpha; (50, 100, 70, 100) is significant at
\* alpha = 0.05 with treatment_rate 0.70 above control_rate 0.50, and
\* (50, 100, 51, 100) is not significant.
C17_RatesAndSignificance ==
    ABReturned("calculate_statistical_significance") =>
        LET a == ab_call.args
            o == ab_call.out
        IN  /\ ab_call.err = "" =>
                /\ o.control_rate.num * a[2] = a[1] * o.control_rate.den
                /\ o.treatment_rate.num * a[4] = a[3] * o.treatment_rate.den
                /\ o.p_value = {al \in Alphas : o.chi_square >= chi2_isf(al)}
                /\ o.is_significant <=> a[5] \in o.p_value
            /\ a = <<50, 100, 70, 100, 50>> =>
                /\ ab_call.err = ""
                /\ o.is_significant
                /\ o.treatment_rate = [num |-> 7, den |-> 10]
                /\ o.control_rate = [num |-> 1, den |-> 2]
            /\ a = <<50, 100, 51, 100, 50>> =>
                ab_call.err = "" /\ ~o.is_significant

C17_Witness ==
    /\ ABReturned("calculate_statistical_significance")
    /\ ab_call.args = <<50, 100, 70, 100, 50>>
    /\ ab_call.err = ""
    /\ ab_call.out.is_significant

\* C18: calculate_statistical_significance raises, and returns no result
\* dictionary, whenever control_total is 0 or treatment_total is 0.
C18_ZeroTotalRaises ==
    /\ ABReturned("calculate_statistical_significance")
    /\ ab_call.args[2] = 0 \/ ab_call.args[4] = 0
    => ab_call.err # "" /\ ab_call.out = NoResults

C18_Witness ==
    /\ ABReturned("calculate_statistical_significance")
    /\ ab_call.args[2] = 0 /\ ab_call.args[4] > 0
    /\ ab_call.err = "ValueError"

\* C19: calculate_statistical_significance raises whenever, both totals
\* being positive, a group's success count is 0 or equal to its total (a
\* success proportion of exactly 0 or exactly 1).
C19_DegenerateProportionRaises ==
    /\ ABReturned("calculate_statistical_significance")
    /\ ab_call.args[2] > 0 /\ ab_call.args[4] > 0
    /\ \/ ab_call.args[1] \in {0, ab_call.args[2]}
       \/ ab_call.args[3] \in {0, ab_call.args[4]}
    => ab_call.err # ""

C21_DurationIsCeiling ==
    /\ ABReturned("recommend_test_duration")
    /\ ab_call.args[1] > 0 /\ ab_call.args[2] >= 0
    => /\ ab_call.err = ""
       /\ ab_call.out \in Int
       /\ ab_call.out * ab_call.args[1] >= 2 * ab_call.args[2]
       /\ (ab_call.out - 1) * ab_call.args[1] < 2 * ab_call.args[2]

C21_Witness ==
    /\ ABReturned("recommend_test_duration")
    /\ ab_call.args = <<4, 5>>
    /\ ab_call.out = 3

\* C22: recommend_test_duration raises, and returns no duration, whenever
\* daily_applicants is zero or negative.
C22_NoThroughputRaises ==
    ABReturned("recommend_test_duration") /\ ab_call.args[1] <= 0 =>
        ab_call.err # "" /\ ab_call.out = NoResults

\* C27: on a stage with at least one record and an improvement_rate that
\* is not negative, simulate_intervention returns a new_pass_rate from
\* baseline_pass_rate to 1.0, an expected_passed of at most sample_size
\* and an additional_passed that is not negative.
C27_InterventionNeverLowers ==
    ABReturned("simulate_intervention") /\ ab_call.args[1] >= 1 =>
        /\ ab_call.err = ""
        /\ FloatLeq(ab_call.out.baseline_pass_rate, ab_call.out.new_pass_rate)
        /\ FloatLeq(ab_call.out.new_pass_rate, FloatOne)
        /\ ab_call.out.expected_passed <= ab_call.out.sample_size
        /\ ab_call.out.additional_passed >= 0

\* C28: for a baseline_rate in (0, 1] and an expected_improvement that is
\* not negative, the rate of which power_analysis takes the arcsine is in
\* [0, 1], the effect size is a number and a sample size is returned.
C28_TargetRateWithinUnit ==
    /\ ABReturned("power_analysis")
    /\ ab_call.args[1] > 0 /\ ab_call.args[1] <= 100
    /\ ab_call.args[2] >= 0
    => /\ ab_call.args[1] * (100 + ab_call.args[2]) <= 10000
       /\ ~EffectSizeIsNaN(ab_call.args[1], ab_call.args[2])
       /\ ab_call.err = ""
       /\ ab_call.out \in Nat

---------------------------------------------------------------------------
(* Claims about the generated funnel data.                                 *)

\* The rows of funnel_data of one applicant, in the order of the table.
RecordsOf(applicant) ==
    SelectSeq(gen.funnel_data, LAMBDA r : r.Applicant_ID = applicant)

\* The applicants whose stage loop has ended.
Finished ==
    {1000 + (k - 1) : k \in 1..(IF gen.pc = "stages" THEN gen.idx - 1 ELSE gen.idx)}

\* C23: in the generated funnel data every applicant's Stage_Sequence values
\* are strictly increasing, exactly one record carries a terminal status
\* (Hired or Rejected), that record is the applicant's last one, and all
\* earlier records have status Passed.
C23_OneTerminalRecordLast ==
    \A applicant \in Finished :
        LET rs == RecordsOf(applicant)
        IN  /\ Len(rs) >= 1
            /\ \A i \in 1..(Len(rs) - 1) :
                  /\ rs[i].Stage_Sequence < rs[i + 1].Stage_Sequence
                  /\ rs[i].Status = "Passed"
            /\ rs[Len(rs)].Status \in {"Hired", "Rejected"}
            /\ Cardinality({i \in 1..Len(rs) :
                              rs[i].Status \in {"Hired", "Rejected"}}) = 1

C23_Witness ==
    /\ gen.pc = "employees"
    /\ gen.idx = 2
    /\ Len(RecordsOf(1000)) = Len(stages)
    /\ RecordsOf(1000)[Len(stages)].Status = "Hired"
    /\ Len(RecordsOf(1001)) = 4
    /\ RecordsOf(1001)[4].Status = "Rejected"

---------------------------------------------------------------------------
(* Claims about the derived features and the frames of the two functions.  *)

\* The stage and time features of every returned record, by the numbers
\* the claim names.
StageFlagsAsStated ==
    /\ last_call.op = "create_features" /\ last_call.err = ""
    /\ HasCol(last_call.df, "Stage_Sequence")
    /\ HasCol(last_call.df, "Days_Since_Application")
    => \A i \in Idx(last_call.out) :
          LET r == last_call.out.rows[i]
              q == last_call.df.rows[i]["Stage_Sequence"]
              d == last_call.df.rows[i]["Days_Since_Application"]
          IN  /\ r["Stage_progress"].num * Len(stages)
                    = q * r["Stage_progress"].den
              /\ r["Is_early_stage"] = (IF q <= 3 THEN 1 ELSE 0)
              /\ r["Is_late_stage"] = (IF q >= 6 THEN 1 ELSE 0)
              /\ r["Is_slow_process"] = (IF d > 50 THEN 1 ELSE 0)

\* C24: create_features sets Stage_progress = Stage_Sequence / (maximum
\* stage count), Is_early_stage = 1 exactly when Stage_Sequence <= 3,
\* Is_late_stage = 1 exactly when Stage_Sequence >= 6 and Is_slow_process = 1
\* exactly when Days_Since_Application > 50, and each of these thresholds is
\* the default of a configurable option.
C24_StageFlagsFromOptions ==
    /\ StageFlagsAsStated
    /\ last_call.op = "create_features" =>
          \A t \in {MaxStageCount, EarlyStageMax, LateStageMin, SlowProcessDays} :
              \E o \in feature_options : o.default = t

\* C25: every record's Source_success_rate is the number of records of the
\* data set with the same Source and Status 'Hired' divided by the number of
\* records with the same Source; records sharing a Source share the value,
\* and the value lies in [0, 1].
C25_SourceRateIsHiredShare ==
    /\ last_call.op = "create_features" /\ last_call.err = ""
    /\ HasCol(last_call.df, "Source") /\ HasCol(last_call.df, "Status")
    => \A i \in Idx(last_call.out) :
          LET df == last_call.df
              rate == last_call.out.rows[i]["Source_success_rate"]
              same == {j \in Idx(df) : df.rows[j]["Source"] = df.rows[i]["Source"]}
              hired == {j \in same : df.rows[j]["Status"] = "Hired"}
          IN  /\ rate.den > 0
              /\ rate.num * Cardinality(same) = Cardinality(hired) * rate.den
              /\ 0 <= rate.num /\ rate.num <= rate.den
              /\ \A j \in same :
                    last_call.out.rows[j]["Source_success_rate"] = rate

C25_Witness ==
    /\ last_call.op = "create_features" /\ last_call.err = ""
    /\ HasCol(last_call.df, "Source") /\ HasCol(last_call.df, "Status")
    /\ Len(last_call.df.rows) = 2
    /\ last_call.df.rows[1]["Source"] # last_call.df.rows[2]["Source"]
    /\ last_call.out.rows[1]["Source_success_rate"] = Frac(1, 1)
    /\ last_call.out.rows[2]["Source_success_rate"] = Frac(0, 1)

\* C26: create_target_variable and create_features leave the table the
\* caller passed as it was; a create_target_variable step changes nothing
\* but the record of the call, and its labels depend on nothing but the
\* table; labelling an already labelled table yields the same will_drop_off
\* values.
C26_CallsLeaveArgumentAndState ==
    [][LET c == last_call'
       IN  /\ c.op \in {"create_target_variable", "create_features"} =>
                c.df_after = c.df
           /\ c.op = "create_target_variable" =>
                /\ UNCHANGED <<label_encoders, fit_medians, fe_artifact,
                               ml_vars, main, ab_call, gen, api_call>>
                /\ c.err = "" =>
                     /\ \A i \in Idx(c.out) :
                           c.out.rows[i]["will_drop_off"]
                             = (IF c.df.rows[i]["Status"] = "Rejected" THEN 1 ELSE 0)
                     /\ HasCol(c.df, "will_drop_off") =>
                           \A i \in Idx(c.out) :
                              c.out.rows[i]["will_drop_off"]
                                = c.df.rows[i]["will_drop_off"]
      ]_vars

C26_Witness ==
    /\ last_call.op = "create_target_variable"
    /\ last_call.err = ""
    /\ HasCol(last_call.df, "will_drop_off")
    /\ HasCol(last_call.df, "Source_encoded")
    /\ label_encoders # << >>
    /\ last_call.df_after = last_call.df
    /\ \E i \in Idx(last_call.out) : last_call.out.rows[i]["will_drop_off"] = 1

---------------------------------------------------------------------------
(* Claims about the models main saves.                                     *)

\* What main saved under a file name.
SavedAs(name) ==
    main.files[CHOOSE k \in DOMAIN main.files : main.files[k][1] = name][2]

\* C29: the model main saves as best_model.pkl is one of the two models it
\* trained and evaluated and no model has a larger test ROC-AUC; it is the
\* Random Forest only when that one's ROC-AUC is strictly the greater, and
\* the Gradient Boosting model on a tie.
C29_BestModelHasMaximumAuc ==
    main.pc = "done" =>
        LET best == SavedAs("best_model.pkl")
            rf_auc == main.metrics[1].roc_auc
            gb_auc == main.metrics[2].roc_auc
            best_auc == IF best = main.models[1] THEN rf_auc ELSE gb_auc
        IN  /\ main.models[1].model_type = "random_forest"
            /\ main.models[2].model_type = "gradient_boosting"
            /\ best \in {main.models[1], main.models[2]}
            /\ best = SavedAs(FileOf(best.model_type))
            /\ ~FracLess(best_auc, rf_auc) /\ ~FracLess(best_auc, gb_auc)
            /\ best = main.models[1] => FracLess(gb_auc, rf_auc)
            /\ rf_auc = gb_auc => best = main.models[2]

C29_Witness ==
    /\ main.pc = "done"
    /\ SavedAs("best_model.pkl") = main.models[1]
    /\ FracLess(main.metrics[2].roc_auc, main.metrics[1].roc_auc)

---------------------------------------------------------------------------
(* Claims about the API.                                                   *)

\* C30: for every source and department filter, those that match no
\* applicant included, GET /metrics answers with a FunnelMetrics whose
\* total_applicants and hired_count are integers and whose hire_rate is
\* from 0 to 100; all three are 0 when no applicant matches.
C30_MetricsWellFormed ==
    api_call.pc = "responded" =>
        /\ api_call.status = 200
        /\ api_call.body.total_applicants \in Nat
        /\ api_call.body.hired_count \in Nat
        /\ api_call.body.hire_rate >= 0 /\ api_call.body.hire_rate <= 10000
        /\ Matching(api_call.db, api_call.source, api_call.department) = << >>
              => /\ api_call.body.total_applicants = 0
                 /\ api_call.body.hired_count = 0
                 /\ api_call.body.hire_rate = 0

====
